---- MODULE Spec2Model ----
(***************************************************************************)
(* AIM-Q terminal explorer: the ViewModel (internal/ui/viewmodel.go), the  *)
(* Explorer that consumes it (internal/ui/explorer.go), the Explorer over  *)
(* the client (internal/ui/app.go), Topology.Filter and                    *)
(* Client.FetchTopology (internal/rabbitmq), and the unit tests that       *)
(* drive them.                                                             *)
(*                                                                         *)
(* One behaviour of Spec is one run of one entry point:                    *)
(*   "Start"                cmd tui -> Explorer.Start(ctx, interval)       *)
(*   "StartExplorer"        StartExplorer(client, opts, interval, http),   *)
(*                          with the keys the user presses                 *)
(*   "TestHasTreeChanged"   a fresh ViewModel, HasTreeChanged on any trees *)
(*   "TestBuildTreeData"    NewViewModel, FetchTopology, BuildTreeData     *)
(*   "TestStartAutoRefresh" NewExplorer, StartAutoRefresh, StopAutoRefresh *)
(*   "TestTopologyFilter"   Topology.Filter on any topology and options    *)
(*   "TestClientFetchTopology"  Client.FetchTopology, any sub-request      *)
(*                          failing or succeeding                          *)
(*   "FormatDetails"        formatExchangeDetails / formatQueueDetails on  *)
(*                          any entity of any topology                     *)
(*   "StartAndStop"         Explorer.Start(ctx, interval) on a context of  *)
(*                          context.WithCancel, then Explorer.Stop()       *)
(*   "TestBuildVhostTree"   NewExplorer over any topology, BuildVhostTree  *)
(***************************************************************************)
EXTENDS Integers, Sequences, FiniteSets, TLC

\* ------------------------------------------------------------------ bounds

\* Exchanges (and queues) per snapshot a test's mock client returns.
MaxEntities == 2
\* Calls of Client.FetchTopology in one run.
MaxFetches == 3
\* Children per node of the trees handed to HasTreeChanged by a test.
MaxWidth == 2
\* Calls a test makes of HasTreeChanged / BuildTreeData.
MaxCalls == 2

\* ------------------------------------------------------------- constants

\* make(chan struct{}, 1)
ChanCap == 1

\* ------------------------------------------------------------------ data

\* A nil pointer (*Topology, *TreeNode) and a nil error.
Nil == <<>>
NoErr == "nil"
Errors == {"fail", "timeout"}

Vhosts == {"vh1", "/"}
ExchangeNames == {"ex1"}
QueueNames == {"q1"}

Exchange == [Name : ExchangeNames, Type : {"direct"}, Vhost : Vhosts]
Queue == [Name : QueueNames, Vhost : Vhosts]
Binding ==
    [Source : ExchangeNames, Destination : QueueNames, DestType : {"queue"},
     Vhost : Vhosts]
Consumer == [Queue : QueueNames, ConsumerTag : {"consumer1"}, Vhost : Vhosts]

\* Sequences of at most n elements of S, no element twice: within one
\* snapshot (vhost, name) identifies an exchange and, separately, a queue.
UniqueSeqs(S, n) ==
    UNION {{s \in [1..k -> S] : \A i, j \in 1..k : i # j => s[i] # s[j]} : k \in 0..n}

Topology ==
    [Exchanges : UniqueSeqs(Exchange, MaxEntities),
     Queues : UniqueSeqs(Queue, MaxEntities),
     Bindings : {<<>>},
     Consumers : {<<>>}]

\* The snapshots the broker of a session has over time: none of its
\* entities, the topology of app_test.go and, with an exchange of a second
\* vhost, that of the ViewModel's tests.
ex1 == [Name |-> "ex1", Type |-> "direct", Vhost |-> "vh1"]
ex1Root == [Name |-> "ex1", Type |-> "topic", Vhost |-> "/"]
q1 == [Name |-> "q1", Vhost |-> "vh1"]
b1 == [Source |-> "ex1", Destination |-> "q1", DestType |-> "queue", Vhost |-> "vh1"]
c1 == [Queue |-> "q1", ConsumerTag |-> "consumer1", Vhost |-> "vh1"]
BrokerSnapshots ==
    {[Exchanges |-> <<>>, Queues |-> <<>>, Bindings |-> <<>>, Consumers |-> <<>>],
     [Exchanges |-> <<ex1>>, Queues |-> <<q1>>, Bindings |-> <<b1>>, Consumers |-> <<c1>>],
     [Exchanges |-> <<ex1, ex1Root>>, Queues |-> <<q1>>, Bindings |-> <<b1>>,
      Consumers |-> <<c1>>]}

TreeNode(text, children) == [Text |-> text, Children |-> children]

\* What Client.FetchTopology can return, of the snapshots tops: a topology
\* and no error, or no topology and an error.
ClientResults(tops) ==
    {[topology |-> t, err |-> NoErr] : t \in tops}
        \cup {[topology |-> Nil, err |-> e] : e \in Errors}

\* The trees a test hands to HasTreeChanged: nil, and nodes whose children
\* are leaves or nil.
TestLabels == {"root", "changed"}
TestLeaves == {TreeNode(l, <<>>) : l \in TestLabels} \cup {Nil}
TestTrees ==
    {Nil} \cup
    {TreeNode(l, c) : l \in TestLabels,
                      c \in UNION {[1..k -> TestLeaves] : k \in 0..MaxWidth}}

\* ------------------------------------------------------- pure functions

\* getOrCreateNode that makes a new node for name on every call.
getOrCreateNodeFresh(vhosts, name) ==
    [n \in DOMAIN vhosts \cup {name} |->
        IF n = name THEN TreeNode("VHost: " \o name, <<>>) ELSE vhosts[n]]

\* getOrCreateNode: the map with a node for name, created when absent.
getOrCreateNode(vhosts, name) ==
    IF name \in DOMAIN vhosts
    THEN vhosts
    ELSE [n \in DOMAIN vhosts \cup {name} |->
            IF n = name THEN TreeNode("VHost: " \o name, <<>>) ELSE vhosts[n]]

\* vhostNode.Children = append(vhostNode.Children, &TreeNode{Text: text})
appendChild(vhosts, name, text) ==
    [vhosts EXCEPT ![name].Children = Append(@, TreeNode(text, <<>>))]

RECURSIVE addQueues(_, _, _)
addQueues(vhosts, queues, i) ==
    IF i > Len(queues)
    THEN vhosts
    ELSE addQueues(
            appendChild(getOrCreateNode(vhosts, queues[i].Vhost),
                        queues[i].Vhost, "Queue: " \o queues[i].Name),
            queues, i + 1)

RECURSIVE addExchanges(_, _, _)
addExchanges(vhosts, exchanges, i) ==
    IF i > Len(exchanges)
    THEN vhosts
    ELSE addExchanges(
            appendChild(getOrCreateNode(vhosts, exchanges[i].Vhost),
                        exchanges[i].Vhost, "Exchange: " \o exchanges[i].Name),
            exchanges, i + 1)

\* The orders in which `for _, node := range vhosts` may visit the keys of
\* a Go map: every order.
RangeOrders(keys) ==
    {p \in [1..Cardinality(keys) -> keys] :
        \A i, j \in 1..Cardinality(keys) : i # j => p[i] # p[j]}

\* BuildTreeData: the trees one call may return for snapshot top.
BuildTreeData(top) ==
    LET vhosts == addExchanges(addQueues(<<>>, top.Queues, 1), top.Exchanges, 1)
    IN  {TreeNode("RabbitMQ Topology", [i \in DOMAIN p |-> vhosts[p[i]]]) :
            p \in RangeOrders(DOMAIN vhosts)}

RECURSIVE treeEqualFrom(_, _, _)
RECURSIVE treeEqual(_, _)

\* treeEqual with the nil test `a == nil || b == nil` answering true.
treeEqualNilMatches(a, b) ==
    IF a = Nil \/ b = Nil
    THEN TRUE
    ELSE IF a.Text # b.Text \/ Len(a.Children) # Len(b.Children)
    THEN FALSE
    ELSE treeEqualFrom(a.Children, b.Children, 1)

\* treeEqual without the loop over the children.
treeEqualShallow(a, b) ==
    IF a = Nil \/ b = Nil
    THEN a = Nil /\ b = Nil
    ELSE ~(a.Text # b.Text \/ Len(a.Children) # Len(b.Children))

treeEqual(a, b) ==
    IF a = Nil \/ b = Nil
    THEN a = Nil /\ b = Nil
    ELSE IF a.Text # b.Text \/ Len(a.Children) # Len(b.Children)
    THEN FALSE
    ELSE treeEqualFrom(a.Children, b.Children, 1)

\* for i := range a.Children { if !treeEqual(...) { return false } }
treeEqualFrom(as, bs, i) ==
    IF i > Len(as)
    THEN TRUE
    ELSE IF ~treeEqual(as[i], bs[i])
    THEN FALSE
    ELSE treeEqualFrom(as, bs, i + 1)

\* HasTreeChanged: the value returned, and the lastTree it leaves.
HasTreeChangedResult(last, newTree) == ~treeEqual(last, newTree)

\* HasTreeChanged that never stores its argument.
HasTreeChangedLastKept(last, newTree) == last

HasTreeChangedLast(last, newTree) ==
    IF ~treeEqual(last, newTree) THEN newTree ELSE last

\* signalUpdate whose default case is taken although the channel has room.
signalUpdateDropped(ch) == ch

\* signalUpdate on a channel that queues every notification.
signalUpdateQueued(ch) == ch + 1

\* signalUpdate: select { case updateChan <- struct{}{}: default: }
signalUpdate(ch) == IF ch < ChanCap THEN ch + 1 ELSE ch

\* FetchTopology that keeps the old snapshot on success.
FetchTopologySnapshotKept(old, res) == old

\* FetchTopology that assigns vm.topology before it tests err.
FetchTopologySnapshotEager(old, res) == res.topology

\* FetchTopology: the snapshot it leaves, and the error it returns.
FetchTopologySnapshot(old, res) == IF res.err # NoErr THEN old ELSE res.topology
FetchTopologyErr(res) == res.err

\* Start that goes on to InitUI whatever the initial fetch returned.
AfterInitialFetchIgnored(err) == "initUI"

\* Start: `if err := e.VM.FetchTopology(); err != nil { return err }`, then
\* e.InitUI(ctx, refreshInterval).
AfterInitialFetch(err) == IF err # NoErr THEN "returned" ELSE "initUI"

\* StartAutoRefresh that returns when FetchTopology fails.
AfterTickFetchFatal(err) == IF err # NoErr THEN "run" ELSE "select"

\* StartAutoRefresh: `_ = vm.FetchTopology()`, then the next select.
AfterTickFetch(err) == "select"

\* StartAutoRefresh as `for range ticker.C`: ctx.Done() is never a case.
selectReadyTickerOnly(tick, done) == IF tick THEN {"ticker.C"} ELSE {}

\* StartAutoRefresh: the cases its select may choose, given whether ticker.C
\* holds a tick and whether ctx.Done() is closed. Go chooses among the ready
\* cases at random.
selectReady(tick, done) ==
    (IF tick THEN {"ticker.C"} ELSE {}) \cup (IF done THEN {"ctx.Done"} ELSE {})

\* ------------------------------------------------------ Topology.Filter

\* cli.Options, of which Filter reads FilterVhost and FilterExchange; "" is
\* no filter.
Options == [FilterVhost : {"", "vh1"}, FilterExchange : {"", "ex1"}]
NoOptions == [FilterVhost |-> "", FilterExchange |-> ""]

\* The most exchanges, and the most queues, of a topology that is filtered.
MaxFiltered == 3

\* The topologies a test filters: up to MaxFiltered exchanges, each ex1 or
\* ex2 in vh1 or vh2 (repeats allowed), and up to MaxFiltered queues in vh1
\* or vh2, each with a binding and a consumer in its vhost.
NameAt == <<"1", "2", "3", "4">>
SeqsUpTo(S, n) == UNION {[1..k -> S] : k \in 0..n}
FilterExchanges ==
    {[Name |-> "ex1", Type |-> "direct", Vhost |-> v] : v \in {"vh1", "vh2"}}
        \cup
    {[Name |-> "ex2", Type |-> "fanout", Vhost |-> v] : v \in {"vh1", "vh2"}}
FilterTopologies ==
    {[Exchanges |-> exs,
      Queues |-> [i \in DOMAIN vs |-> [Name |-> "q" \o NameAt[i], Vhost |-> vs[i]]],
      Bindings |-> [i \in DOMAIN vs |->
                        [Source |-> "ex" \o NameAt[i],
                         Destination |-> "q" \o NameAt[i],
                         DestType |-> "queue", Vhost |-> vs[i]]],
      Consumers |-> [i \in DOMAIN vs |->
                        [Queue |-> "q" \o NameAt[i],
                         ConsumerTag |-> "ctag" \o NameAt[i],
                         Vhost |-> vs[i]]]] :
        exs \in SeqsUpTo(FilterExchanges, MaxFiltered),
        vs \in SeqsUpTo({"vh1", "vh2"}, MaxFiltered)}

\* Filter that ignores the vhost filter.
keepVhostAll(x, opts) == TRUE

\* Filter: the element is not skipped by
\* `if opts.FilterVhost != "" && x.Vhost != opts.FilterVhost { continue }`.
keepVhost(x, opts) == ~(opts.FilterVhost # "" /\ x.Vhost # opts.FilterVhost)

\* Filter that ignores the exchange filter.
keepExchangeVhostOnly(ex, opts) == keepVhost(ex, opts)

\* Filter: the exchange is skipped neither by the vhost test nor by
\* `if opts.FilterExchange != "" && ex.Name != opts.FilterExchange`.
keepExchange(ex, opts) ==
    /\ keepVhost(ex, opts)
    /\ ~(opts.FilterExchange # "" /\ ex.Name # opts.FilterExchange)

\* Topology.Filter: four loops that append the elements they do not skip to
\* the slices of a new Topology.
Filter(t, opts) ==
    [Exchanges |-> SelectSeq(t.Exchanges, LAMBDA ex : keepExchange(ex, opts)),
     Queues |-> SelectSeq(t.Queues, LAMBDA q : keepVhost(q, opts)),
     Bindings |-> SelectSeq(t.Bindings, LAMBDA b : keepVhost(b, opts)),
     Consumers |-> SelectSeq(t.Consumers, LAMBDA c : keepVhost(c, opts))]

\* ------------------------------------------------------ the detail views

\* The most bindings, and the most consumers, of a topology whose detail
\* views are formatted.
MaxListed == 2

\* The topologies whose detail views are formatted: two exchanges and two
\* queues of vh1, an exchange and a queue sharing the name "a"; bindings
\* from an exchange to a queue and to an exchange, in vh1 and in vh2; and
\* consumers of the queues, in vh1 and in vh2.
DetailBindings ==
    {[Source |-> "a", Destination |-> "a", DestType |-> "queue", Vhost |-> "vh1"],
     [Source |-> "b", Destination |-> "a", DestType |-> "exchange", Vhost |-> "vh1"],
     [Source |-> "a", Destination |-> "a", DestType |-> "queue", Vhost |-> "vh2"],
     [Source |-> "b", Destination |-> "q", DestType |-> "queue", Vhost |-> "vh1"]}
DetailConsumers ==
    {[Queue |-> "a", ConsumerTag |-> "ctag1", Vhost |-> "vh1"],
     [Queue |-> "a", ConsumerTag |-> "ctag1", Vhost |-> "vh2"],
     [Queue |-> "q", ConsumerTag |-> "ctag1", Vhost |-> "vh1"]}
DetailTopologies ==
    {[Exchanges |-> <<[Name |-> "a", Type |-> "direct", Vhost |-> "vh1"],
                      [Name |-> "b", Type |-> "fanout", Vhost |-> "vh1"]>>,
      Queues |-> <<[Name |-> "a", Vhost |-> "vh1"], [Name |-> "q", Vhost |-> "vh1"]>>,
      Bindings |-> bs, Consumers |-> cs] :
        bs \in SeqsUpTo(DetailBindings, MaxListed),
        cs \in SeqsUpTo(DetailConsumers, MaxListed)}

\* ------------------------------------------------- Client.FetchTopology

\* The paths of the sub-requests, in the order FetchTopology issues them.
SubRequests == <<"exchanges", "queues", "bindings", "consumers">>

\* What c.get(path, &out) can do: fail with an error, or decode a value.
GetResults(path) ==
    {[path |-> path, err |-> e, value |-> <<>>] : e \in Errors} \cup
    {[path |-> path, err |-> NoErr, value |-> v] :
        v \in CASE path = "exchanges" -> {<<>>, <<ex1>>}
                [] path = "queues" -> {<<>>, <<q1>>}
                [] path = "bindings" -> {<<>>, <<b1>>}
                [] OTHER -> {<<>>, <<c1>>}}

\* FetchTopology that goes on to the next sub-request after a failed one.
FetchTopologyGoesOn(done) == Len(done) = Len(SubRequests)

\* Client.FetchTopology returns after the sub-requests done: the last one
\* failed (`return nil, err`), or all four were made.
FetchTopologyReturns(done) ==
    \/ done # <<>> /\ done[Len(done)].err # NoErr
    \/ Len(done) = Len(SubRequests)

\* What Client.FetchTopology returns after the sub-requests done.
FetchTopologyResult(done) ==
    IF \E i \in DOMAIN done : done[i].err # NoErr
    THEN [topology |-> Nil,
          err |-> done[CHOOSE i \in DOMAIN done :
                        /\ done[i].err # NoErr
                        /\ \A j \in 1..(i - 1) : done[j].err = NoErr].err]
    ELSE [topology |-> [Exchanges |-> done[1].value, Queues |-> done[2].value,
                        Bindings |-> done[3].value,
                        Consumers |-> done[4].value],
          err |-> NoErr]

\* ---------------------------------------------------- the widget tree

\* A tview.TreeNode (NewTreeNode leaves it expanded and without reference)
\* and a tview.TreeView: its root and the path of child indices from the
\* root to its current node.
Node(text, expanded, reference, children) ==
    [Text |-> text, Expanded |-> expanded, Reference |-> reference,
     Children |-> children]
NoNode == <<0>>
TreeView(root, current) == [Root |-> root, Current |-> current]

\* RenderTree: the tview node of a TreeNode, nil for nil.
RECURSIVE RenderTree(_)
RenderTree(data) ==
    IF data = Nil
    THEN Nil
    ELSE Node(data.Text, TRUE, Nil,
              [i \in DOMAIN data.Children |-> RenderTree(data.Children[i])])

RECURSIVE NodeAt(_, _)
NodeAt(node, path) ==
    IF path = <<>> THEN node ELSE NodeAt(node.Children[Head(path)], Tail(path))

\* The paths of the nodes a walk visits, in the order it visits them: the
\* node, then each child's subtree.
RECURSIVE walk(_, _)
RECURSIVE walkChildren(_, _, _)
walk(node, path) == <<path>> \o walkChildren(node, path, 1)
walkChildren(node, path, i) ==
    IF i > Len(node.Children)
    THEN <<>>
    ELSE walk(node.Children[i], Append(path, i)) \o walkChildren(node, path, i + 1)

\* The vhosts in the order createVhostNodes first sees them.
RECURSIVE firstSeen(_, _, _)
firstSeen(seen, items, i) ==
    IF i > Len(items)
    THEN seen
    ELSE firstSeen(IF \E k \in DOMAIN seen : seen[k] = items[i].Vhost
                   THEN seen ELSE Append(seen, items[i].Vhost),
                   items, i + 1)

\* The leaf addExchangeNodes and addQueueNodes make of an entity. (The
\* labels are those of the source without their leading pictograph.) The
\* reference, &ex or &q, points to the range variable of the iteration: a
\* copy of the entity, one per iteration as from Go 1.22.
exchangeNode(ex) ==
    Node("Exchange: " \o ex.Name \o " (" \o ex.Type \o ")", FALSE,
         [kind |-> "Exchange", val |-> ex], <<>>)
queueNode(q) == Node("Queue: " \o q.Name, FALSE, [kind |-> "Queue", val |-> q], <<>>)

\* addExchangeNodes, addQueueNodes: the leaves added under the node of
\* vhost, in the order of the slice.
RECURSIVE addExchangeNodes(_, _, _)
addExchangeNodes(exchanges, vhost, i) ==
    IF i > Len(exchanges)
    THEN <<>>
    ELSE (IF exchanges[i].Vhost = vhost
          THEN <<exchangeNode(exchanges[i])>> ELSE <<>>)
            \o addExchangeNodes(exchanges, vhost, i + 1)

RECURSIVE addQueueNodes(_, _, _)
addQueueNodes(queues, vhost, i) ==
    IF i > Len(queues)
    THEN <<>>
    ELSE (IF queues[i].Vhost = vhost THEN <<queueNode(queues[i])>> ELSE <<>>)
            \o addQueueNodes(queues, vhost, i + 1)

\* BuildVhostTree: the root, one collapsed node per vhost in first-seen
\* order, under it the vhost's exchanges and then its queues; the root is
\* the current node.
BuildVhostTree(top) ==
    LET order == firstSeen(firstSeen(<<>>, top.Exchanges, 1), top.Queues, 1)
        vhostNode(v) ==
            Node("Vhost: " \o v, FALSE, Nil,
                 addExchangeNodes(top.Exchanges, v, 1)
                    \o addQueueNodes(top.Queues, v, 1))
    IN  TreeView(Node("RabbitMQ Vhosts", TRUE, Nil,
                      [i \in DOMAIN order |-> vhostNode(order[i])]),
                 <<>>)

\* collectExpandedNodes: expanded[node.GetText()] = node.IsExpanded() for
\* every node of the walk, a later node overwriting an earlier one.
collectExpandedNodes(root) ==
    LET paths == walk(root, <<>>)
        text(i) == NodeAt(root, paths[i]).Text
    IN  [t \in {text(i) : i \in DOMAIN paths} |->
            LET last == CHOOSE i \in DOMAIN paths :
                            text(i) = t /\ \A j \in DOMAIN paths : j > i => text(j) # t
            IN  NodeAt(root, paths[last]).Expanded]

\* restoreTreeState: every node whose text ExpandedNodes maps to true is
\* expanded, and the last node of the walk whose text is selectedText
\* becomes the current node.
RECURSIVE restoreExpanded(_, _)
restoreExpanded(node, expanded) ==
    [node EXCEPT
        !.Expanded = IF node.Text \in DOMAIN expanded /\ expanded[node.Text]
                     THEN TRUE ELSE @,
        !.Children = [i \in DOMAIN @ |-> restoreExpanded(@[i], expanded)]]

restoreTreeState(tree, expanded, selectedText) ==
    LET paths == walk(tree.Root, <<>>)
        hits == {i \in DOMAIN paths : NodeAt(tree.Root, paths[i]).Text = selectedText}
    IN  TreeView(restoreExpanded(tree.Root, expanded),
                 IF hits = {} THEN tree.Current
                 ELSE paths[CHOOSE i \in hits : \A j \in hits : j <= i])

\* The paths of the nodes the tree view shows, from top to bottom: a node,
\* and the subtrees of its children when it is expanded.
RECURSIVE visible(_, _)
RECURSIVE visibleChildren(_, _, _)
visible(node, path) ==
    <<path>> \o (IF node.Expanded THEN visibleChildren(node, path, 1) ELSE <<>>)
visibleChildren(node, path, i) ==
    IF i > Len(node.Children)
    THEN <<>>
    ELSE visible(node.Children[i], Append(path, i))
            \o visibleChildren(node, path, i + 1)

\* The current node after an arrow key: the shown node below (by = 1) or
\* above (by = -1) the current one, the current one at either end.
moveCurrent(tree, by) ==
    LET shown == visible(tree.Root, <<>>)
        at == CHOOSE i \in DOMAIN shown : shown[i] = tree.Current
        to == at + by
    IN  IF to \in DOMAIN shown THEN shown[to] ELSE tree.Current

\* A selected function that toggles the root whatever node is selected.
toggleExpandedRoot(node, path) == [node EXCEPT !.Expanded = ~@]

\* The selected function of setupTreeHandlers on a node without reference:
\* node.SetExpanded(!node.IsExpanded()) on the node at path.
RECURSIVE toggleExpanded(_, _)
toggleExpanded(node, path) ==
    IF path = <<>>
    THEN [node EXCEPT !.Expanded = ~@]
    ELSE [node EXCEPT
            !.Children[Head(path)] = toggleExpanded(@, Tail(path))]

\* formatExchangeDetails lists binding b for exchange ex:
\* `if b.Source == ex.Name && b.Vhost == ex.Vhost`.
exchangeBinding(b, ex) == b.Source = ex.Name /\ b.Vhost = ex.Vhost

\* formatQueueDetails lists binding b for queue q: `if b.Destination ==
\* q.Name && b.Vhost == q.Vhost && b.DestType == "queue"`.
queueBinding(b, q) ==
    b.Destination = q.Name /\ b.Vhost = q.Vhost /\ b.DestType = "queue"

\* formatQueueDetails lists consumer c for queue q:
\* `if c.Queue == q.Name && c.Vhost == q.Vhost`.
queueConsumer(c, q) == c.Queue = q.Name /\ c.Vhost = q.Vhost

\* formatExchangeDetails, formatQueueDetails: the entity whose attributes
\* the text shows, and the bindings and consumers of e.Topology it lists,
\* in the order of the slices.
formatExchangeDetails(ex, top) ==
    [kind |-> "Exchange", entity |-> ex,
     bindings |-> SelectSeq(top.Bindings, LAMBDA b : exchangeBinding(b, ex)),
     consumers |-> <<>>]
formatQueueDetails(q, top) ==
    [kind |-> "Queue", entity |-> q,
     bindings |-> SelectSeq(top.Bindings, LAMBDA b : queueBinding(b, q)),
     consumers |-> SelectSeq(top.Consumers, LAMBDA c : queueConsumer(c, q))]

\* The selected function of setupTreeHandlers on a node with a reference:
\* showExchangeDetails or showQueueDetails by the type of the reference.
showDetails(ref, top) ==
    IF ref.kind = "Exchange"
    THEN formatExchangeDetails(ref.val, top)
    ELSE formatQueueDetails(ref.val, top)

\* A queued update of the goroutine waiting for ctx.Done() that redraws
\* the page and does not call App.Stop.
stopUpdateRedraw(page) == [kind |-> "swap", view |-> page]

\* The update that goroutine queues once the context is cancelled:
\* e.App.QueueUpdateDraw(func() { e.App.Stop() }).
stopUpdate(page) == [kind |-> "stop", view |-> Nil]

\* A queued update that only removes the page "main".
swapPageRemoved(page, view) == Nil

\* The queued update of RefreshTreeView and of listenForUpdates, run by the
\* event loop as one callback: e.Pages.RemovePage("main") and
\* e.Pages.AddPage("main", layout, true, true). The page "main" after it.
swapPage(page, view) == view

\* A listener that queues no swap whatever HasTreeChanged returned.
AfterDiffNever(changed, queue, update) == queue

\* A listener that queues the swap whatever HasTreeChanged returned.
AfterDiffAlways(changed, queue, update) == Append(queue, update)

\* listenForUpdates: `if !e.VM.HasTreeChanged(dataTree) { continue }`, and
\* otherwise App.QueueUpdateDraw of the swap. The queue of updates after it.
AfterDiff(changed, queue, update) ==
    IF changed THEN Append(queue, update) ELSE queue

\* contextCancelFunc: the Cancel method of ctx when ctx has the methods
\* Done() <-chan struct{} and Cancel(), nil otherwise. The contexts of
\* package context (Background, WithCancel, WithTimeout, ...) export no
\* method Cancel; "HasCancel" is a type of the caller's that does.
contextCancelFunc(ctx) == IF ctx = "HasCancel" THEN "Cancel" ELSE Nil

\* StopAutoRefresh that takes the default case whatever the channel holds.
stopSignalDropped(ch) == ch

\* StopAutoRefresh: select { case e.stopAutoRefresh <- struct{}{}: default: }
stopSignal(ch) == IF ch < 1 THEN ch + 1 ELSE ch

\* Explorer.StartAutoRefresh: `continue` after a failed fetch.
AfterFailedRefresh(err) == "select"

\* ----------------------------------------------------------------- state

VARIABLES
    entry,            \* the entry point this run executes
    refreshInterval,  \* Start's refreshInterval argument
    ctxDone,          \* ctx.Done() is closed
    topology,         \* vm.topology
    updateChan,       \* notifications held by vm.updateChan
    lastTree,         \* vm.lastTree
    mu,               \* vm.mu: "free" or "locked" (Lock held by FetchTopology)
    mainPc,           \* where the thread that called the entry point is
    fetchCaller,      \* who called the FetchTopology in progress
    fetchErr,         \* what the last ViewModel.FetchTopology returned
    clientRes,        \* what the last Client.FetchTopology returned
    startErr,         \* what Start returned
    tickPending,      \* ticker.C holds a tick
    listenerPc,       \* where the listenForUpdates goroutine is
    dataTree,         \* listenForUpdates' dataTree
    watcherPc,        \* where InitUI's `<-ctx.Done()` goroutine is
    uiQueue,          \* updates queued by App.QueueUpdateDraw, oldest first
    mainPage,         \* the tree of the page "main" (Nil: no such page)
    fetches,          \* calls of Client.FetchTopology so far
    gen,              \* snapshots committed to vm.topology so far
    builtGen,         \* gen of the snapshot listenForUpdates last built from
    builds,           \* the last two BuildTreeData calls, newest last: the
                      \* snapshot read (its gen and content) and the tree built
    hasChanged,       \* HasTreeChanged calls so far, and the last one
    eTopology,        \* e.Topology of the Explorer of app.go
    refreshPc,        \* where the goroutine of Explorer.StartAutoRefresh is
    stopAutoRefresh,  \* signals held by e.stopAutoRefresh
    refreshMu,        \* e.refreshMu: "free" or "locked"
    ExpandedNodes,    \* e.ExpandedNodes
    selectedText,     \* RefreshTreeView's selectedText
    focus,            \* what App.GetFocus() returns: "tree", "details", "none"
    stopCalls,        \* calls of StopAutoRefresh so far
    lastGood,         \* the topology of the last Client.FetchTopology without error
    filterIn,         \* the Topology that Filter is called on
    filterOpts,       \* the cli.Options given to Filter
    filterOut,        \* the Topology that Filter returned
    gets,             \* the sub-requests Client.FetchTopology has issued, in
                      \* order: the path, and the error and value get returned
    uiAccess,         \* history: which goroutine has read or written which
                      \* part of the displayed widget tree
    details,          \* what the page "details" shows while it is open: the
                      \* entity, and the bindings and consumers listed
    cancelCtx,        \* e.cancelCtx of explorer.go: nil or the cancel function
    stopped           \* history: Explorer.Stop has been called

\* The state of the Explorer of app.go.
appVars ==
    <<eTopology, refreshPc, stopAutoRefresh, refreshMu, ExpandedNodes,
      selectedText, focus, stopCalls>>

\* The state of the ViewModel and of the Explorer of explorer.go.
vmVars ==
    <<ctxDone, topology, updateChan, lastTree, mu, fetchCaller, fetchErr,
      listenerPc, dataTree, watcherPc, gen, builtGen, builds, hasChanged>>

\* The state of the tests of package rabbitmq.
rabbitVars == <<filterIn, filterOpts, filterOut, gets>>

\* Explorer.Stop of explorer.go.
stopVars == <<cancelCtx, stopped>>

vars ==
    <<entry, refreshInterval, mainPc, clientRes, lastGood, startErr,
      tickPending, uiQueue, mainPage, fetches, vmVars, appVars, rabbitVars,
      uiAccess, details, stopVars>>

Entries ==
    {"Start", "StartExplorer", "TestHasTreeChanged", "TestBuildTreeData",
     "TestStartAutoRefresh", "TestTopologyFilter", "TestClientFetchTopology",
     "FormatDetails", "StartAndStop", "TestBuildVhostTree"}

\* minimalTopology() of app_test.go.
minimalTopology ==
    [Exchanges |-> <<ex1>>, Queues |-> <<q1>>, Bindings |-> <<b1>>,
     Consumers |-> <<c1>>]

NoCall == [calls |-> 0, last |-> Nil, arg |-> Nil, ret |-> FALSE]

\* NewViewModel / &ViewModel{}, NewExplorer, and the arguments of the run.
Init ==
    /\ entry \in Entries
    /\ refreshInterval \in
        (CASE entry \in {"Start", "StartExplorer"} -> {0, 1}
           [] entry = "StartAndStop" -> {1}
           [] entry = "TestStartAutoRefresh" -> {1}
           [] OTHER -> {0})
    /\ ctxDone = FALSE
    /\ topology = Nil
    /\ updateChan = 0
    /\ lastTree = Nil
    /\ mu = "free"
    /\ mainPc = "start"
    /\ fetchCaller = "none"
    /\ fetchErr = NoErr
    /\ clientRes = [topology |-> Nil, err |-> NoErr]
    /\ startErr = NoErr
    /\ tickPending = FALSE
    /\ listenerPc = "off"
    /\ dataTree = Nil
    /\ watcherPc = "off"
    /\ uiQueue = <<>>
    /\ mainPage = Nil
    /\ fetches = 0
    /\ gen = 0
    /\ builtGen = 0
    /\ builds = <<>>
    /\ hasChanged = NoCall
    /\ eTopology = IF entry = "TestStartAutoRefresh" THEN minimalTopology ELSE Nil
    /\ refreshPc = "off"
    /\ stopAutoRefresh = 0
    /\ refreshMu = "free"
    /\ ExpandedNodes = Nil
    /\ selectedText = ""
    /\ focus = "none"
    /\ stopCalls = 0
    /\ lastGood = Nil
    /\ filterIn = Nil
    /\ filterOpts = NoOptions
    /\ filterOut = Nil
    /\ gets = <<>>
    /\ uiAccess = {}
    /\ details = Nil
    /\ cancelCtx = Nil
    /\ stopped = FALSE

\* The record of one more BuildTreeData call.
Built(tree) ==
    LET call == [gen |-> gen, top |-> topology, tree |-> tree]
    IN  IF Len(builds) < 2 THEN Append(builds, call) ELSE <<builds[2], call>>

\* The record of one more HasTreeChanged(newTree) call.
Called(newTree) ==
    [calls |-> hasChanged.calls + 1, last |-> lastTree, arg |-> newTree,
     ret |-> HasTreeChangedResult(lastTree, newTree)]

\* ------------------------------------------------- access to the display

\* The goroutine by has read or written the parts of the displayed widgets.
Access(by, parts) == {[by |-> by, of |-> part] : part \in parts}

\* The parts of the displayed widgets RefreshTreeView reads in the goroutine
\* that calls it: e.App.GetFocus(), and when a tree view has the focus its
\* GetCurrentNode(), and when that is not nil the text of the node and,
\* in collectExpandedNodes, the expansion flag of every node from GetRoot().
RefreshTreeViewReads(focused, page) ==
    {"focus"}
        \cup (IF focused = "tree" /\ page # Nil THEN {"current"} ELSE {})
        \cup (IF focused = "tree" /\ page # Nil /\ page.Current # NoNode
              THEN {"expanded"} ELSE {})

\* ------------------------------------------------ ViewModel.FetchTopology

\* vm.mu.Lock(), then the call of vm.Client.FetchTopology is in flight.
FetchTopologyLock(caller) ==
    /\ mu = "free"
    /\ fetches < MaxFetches
    /\ mu' = "locked"
    /\ mainPc' = "fetching"
    /\ fetchCaller' = caller
    /\ fetches' = fetches + 1

\* Where the caller goes on when FetchTopology has returned err.
FetchTopologyReturn(err) ==
    CASE fetchCaller = "Start" ->
            /\ mainPc' = AfterInitialFetch(err)
            /\ startErr' = err
      [] fetchCaller = "loop" ->
            mainPc' = AfterTickFetch(err) /\ startErr' = startErr
      [] OTHER ->
            mainPc' = "test" /\ startErr' = startErr

\* Client.FetchTopology returns res. On an error: the deferred Unlock and
\* `return err`. Otherwise vm.topology = topology.
ClientReturns ==
    /\ mainPc = "fetching"
    /\ \E res \in ClientResults(IF entry = "TestBuildTreeData"
                                 THEN Topology ELSE BrokerSnapshots) :
        /\ clientRes' = res
        /\ lastGood' = IF res.err # NoErr THEN lastGood ELSE res.topology
        /\ topology' = FetchTopologySnapshot(topology, res)
        /\ IF res.err # NoErr
           THEN /\ mu' = "free"
                /\ fetchErr' = FetchTopologyErr(res)
                /\ FetchTopologyReturn(FetchTopologyErr(res))
                /\ UNCHANGED <<gen, fetchCaller, appVars>>
           ELSE /\ mainPc' = "signal"
                /\ gen' = gen + 1
                /\ UNCHANGED <<mu, fetchErr, startErr, fetchCaller, appVars>>
    /\ UNCHANGED <<entry, refreshInterval, ctxDone, updateChan, lastTree,
                   tickPending, listenerPc, dataTree, watcherPc, uiQueue,
                   mainPage, fetches, builtGen, builds, hasChanged, appVars,
                   rabbitVars, uiAccess, details, stopVars>>

\* vm.signalUpdate(); return nil (and the deferred Unlock).
SignalUpdate ==
    /\ mainPc = "signal"
    /\ updateChan' = signalUpdate(updateChan)
    /\ mu' = "free"
    /\ fetchErr' = NoErr
    /\ FetchTopologyReturn(NoErr)
    /\ UNCHANGED <<entry, refreshInterval, ctxDone, topology, lastTree,
                   fetchCaller, clientRes, lastGood, tickPending, listenerPc,
                   dataTree, watcherPc, uiQueue, mainPage, fetches, gen,
                   builtGen, builds, hasChanged, appVars, rabbitVars,
                   uiAccess, details, stopVars>>

\* ---------------------------------------------------------- Explorer.Start

\* Start: contextCancelFunc(ctx), then the initial e.VM.FetchTopology().
Start ==
    /\ entry \in {"Start", "StartAndStop"}
    /\ mainPc = "start"
    /\ cancelCtx' = contextCancelFunc("WithCancel")
    /\ stopped' = stopped
    /\ FetchTopologyLock("Start")
    /\ UNCHANGED <<entry, refreshInterval, ctxDone, topology, updateChan,
                   lastTree, fetchErr, clientRes, lastGood, startErr,
                   tickPending, listenerPc, dataTree, watcherPc, uiQueue,
                   mainPage, gen, builtGen, builds, hasChanged, appVars,
                   rabbitVars, uiAccess, details>>

\* InitUI: BuildTreeFromVM, AddPage("main"), go listenForUpdates(); then
\* either VM.StartAutoRefresh (called in place: it arms the ticker and
\* selects) or, with no interval, the ctx.Done() goroutine and App.Run.
InitUI ==
    /\ mainPc = "initUI"
    /\ mu = "free"
    /\ \E tree \in BuildTreeData(topology) :
        /\ mainPage' = TreeView(RenderTree(tree), <<>>)
        /\ builds' = Built(tree)
    /\ listenerPc' = "recv"
    /\ IF refreshInterval > 0
       THEN mainPc' = "select" /\ watcherPc' = watcherPc
       ELSE mainPc' = "run" /\ watcherPc' = "wait"
    /\ UNCHANGED <<entry, refreshInterval, ctxDone, topology, updateChan,
                   lastTree, mu, fetchCaller, fetchErr, clientRes, lastGood,
                   startErr, tickPending, dataTree, uiQueue, fetches, gen,
                   builtGen, hasChanged, appVars, rabbitVars, uiAccess,
                   details, stopVars>>

\* ------------------------------------------- ViewModel.StartAutoRefresh

\* The ticker of the running StartAutoRefresh (the ViewModel's or the
\* Explorer's) fires; a tick that finds ticker.C full is dropped. A run is
\* cut after MaxFetches fetches: the ticker fires only while the fetches in
\* flight and the ones of this tick fit.
Tick ==
    /\ refreshInterval > 0
    /\ \/ /\ mainPc \in {"select", "fetching", "signal"}
          /\ mainPc = "select" \/ fetchCaller = "loop"
          /\ fetches < MaxFetches
       \/ /\ refreshPc \in {"select", "fetch", "refetch"}
          /\ fetches + (IF refreshPc = "fetch" THEN 2 ELSE 1) < MaxFetches
    /\ ~tickPending
    /\ tickPending' = TRUE
    /\ UNCHANGED <<entry, refreshInterval, ctxDone, topology, updateChan,
                   lastTree, mu, mainPc, fetchCaller, fetchErr, clientRes,
                   lastGood, startErr, listenerPc, dataTree, watcherPc,
                   uiQueue, mainPage, fetches, gen, builtGen, builds,
                   hasChanged, appVars, rabbitVars, uiAccess, details,
                   stopVars>>

\* select chooses `case <-ticker.C`: vm.FetchTopology() is called.
LoopTick ==
    /\ mainPc = "select"
    /\ "ticker.C" \in selectReady(tickPending, ctxDone)
    /\ tickPending' = FALSE
    /\ FetchTopologyLock("loop")
    /\ UNCHANGED <<entry, refreshInterval, ctxDone, topology, updateChan,
                   lastTree, fetchErr, clientRes, lastGood, startErr,
                   listenerPc, dataTree, watcherPc, uiQueue, mainPage, gen,
                   builtGen, builds, hasChanged, appVars, rabbitVars,
                   uiAccess, details, stopVars>>

\* select chooses `case <-ctx.Done()`: StartAutoRefresh returns, InitUI
\* starts the ctx.Done() goroutine and returns, Start calls App.Run.
LoopDone ==
    /\ mainPc = "select"
    /\ "ctx.Done" \in selectReady(tickPending, ctxDone)
    /\ mainPc' = "run"
    /\ watcherPc' = "wait"
    /\ UNCHANGED <<entry, refreshInterval, ctxDone, topology, updateChan,
                   lastTree, mu, fetchCaller, fetchErr, clientRes, lastGood,
                   startErr, tickPending, listenerPc, dataTree, uiQueue,
                   mainPage, fetches, gen, builtGen, builds, hasChanged,
                   appVars, rabbitVars, uiAccess, details, stopVars>>

\* Explorer.Stop, called by another goroutine once Start is running:
\* `if e.cancelCtx != nil { e.cancelCtx() }`.
Stop ==
    /\ entry = "StartAndStop"
    /\ mainPc # "start"
    /\ ~stopped
    /\ stopped' = TRUE
    /\ ctxDone' = IF cancelCtx # Nil THEN TRUE ELSE ctxDone
    /\ UNCHANGED <<entry, refreshInterval, topology, updateChan, lastTree, mu,
                   mainPc, fetchCaller, fetchErr, clientRes, lastGood,
                   startErr, tickPending, listenerPc, dataTree, watcherPc,
                   uiQueue, mainPage, fetches, gen, builtGen, builds,
                   hasChanged, appVars, rabbitVars, uiAccess, details,
                   cancelCtx>>

\* cancel() of the context given to Start (cmd/ui.go: on SIGINT/SIGTERM).
Cancel ==
    /\ entry = "Start"
    /\ ~ctxDone
    /\ ctxDone' = TRUE
    /\ UNCHANGED <<entry, refreshInterval, topology, updateChan, lastTree, mu,
                   mainPc, fetchCaller, fetchErr, clientRes, lastGood,
                   startErr, tickPending, listenerPc, dataTree, watcherPc,
                   uiQueue, mainPage, fetches, gen, builtGen, builds,
                   hasChanged, appVars, rabbitVars, uiAccess, details,
                   stopVars>>

\* -------------------------------------------- Explorer.listenForUpdates

\* `for range e.VM.Updates()` receives a notification.
ListenerRecv ==
    /\ listenerPc = "recv"
    /\ updateChan > 0
    /\ updateChan' = updateChan - 1
    /\ listenerPc' = "build"
    /\ UNCHANGED <<entry, refreshInterval, ctxDone, topology, lastTree, mu,
                   mainPc, fetchCaller, fetchErr, clientRes, lastGood,
                   startErr, tickPending, dataTree, watcherPc, uiQueue,
                   mainPage, fetches, gen, builtGen, builds, hasChanged,
                   appVars, rabbitVars, uiAccess, details, stopVars>>

\* dataTree := e.VM.BuildTreeData(): GetTopology under RLock, then the tree.
ListenerBuild ==
    /\ listenerPc = "build"
    /\ mu = "free"
    /\ \E tree \in BuildTreeData(topology) :
        /\ dataTree' = tree
        /\ builds' = Built(tree)
    /\ builtGen' = gen
    /\ listenerPc' = "diff"
    /\ UNCHANGED <<entry, refreshInterval, ctxDone, topology, updateChan,
                   lastTree, mu, mainPc, fetchCaller, fetchErr, clientRes,
                   lastGood, startErr, tickPending, watcherPc, uiQueue,
                   mainPage, fetches, gen, hasChanged, appVars, rabbitVars,
                   uiAccess, details, stopVars>>

\* if !e.VM.HasTreeChanged(dataTree) { continue }; otherwise the new layout
\* and App.QueueUpdateDraw(RemovePage("main"); AddPage("main", layout)).
ListenerDiff ==
    /\ listenerPc = "diff"
    /\ hasChanged' = Called(dataTree)
    /\ lastTree' = HasTreeChangedLast(lastTree, dataTree)
    /\ uiQueue' = AfterDiff(HasTreeChangedResult(lastTree, dataTree), uiQueue,
                            [kind |-> "swap",
                             view |-> TreeView(RenderTree(dataTree), NoNode)])
    /\ listenerPc' = "recv"
    /\ UNCHANGED <<entry, refreshInterval, ctxDone, topology, updateChan, mu,
                   mainPc, fetchCaller, fetchErr, clientRes, lastGood,
                   startErr, tickPending, dataTree, watcherPc, mainPage,
                   fetches, gen, builtGen, builds, appVars, rabbitVars,
                   uiAccess, details, stopVars>>

\* ------------------------------------------------ the ctx.Done() goroutine

\* <-ctx.Done(); e.App.QueueUpdateDraw(func() { e.App.Stop() })
WatcherStop ==
    /\ watcherPc = "wait"
    /\ ctxDone
    /\ uiQueue' = Append(uiQueue, stopUpdate(mainPage))
    /\ watcherPc' = "done"
    /\ UNCHANGED <<entry, refreshInterval, ctxDone, topology, updateChan,
                   lastTree, mu, mainPc, fetchCaller, fetchErr, clientRes,
                   lastGood, startErr, tickPending, listenerPc, dataTree,
                   mainPage, fetches, gen, builtGen, builds, hasChanged,
                   appVars, rabbitVars, uiAccess, details, stopVars>>

\* ------------------------------------------------------------- App.Run

\* The event loop runs the oldest queued update: the page swap, or
\* App.Stop, on which Run and then Start return.
RunUpdate ==
    /\ mainPc = "run"
    /\ uiQueue # <<>>
    /\ uiQueue' = Tail(uiQueue)
    /\ IF Head(uiQueue).kind = "stop"
       THEN mainPc' = "returned" /\ mainPage' = mainPage
            /\ uiAccess' = uiAccess
       ELSE mainPc' = mainPc /\ mainPage' = swapPage(mainPage, Head(uiQueue).view)
            /\ uiAccess' = uiAccess \cup Access("eventLoop", {"pages"})
    /\ UNCHANGED <<entry, refreshInterval, ctxDone, topology, updateChan,
                   lastTree, mu, fetchCaller, fetchErr, clientRes, lastGood,
                   startErr, tickPending, listenerPc, dataTree, watcherPc,
                   fetches, gen, builtGen, builds, hasChanged, appVars,
                   rabbitVars, details, stopVars>>

\* ------------------------------------------------------------ the tests

\* TestHasTreeChanged: vm := &ViewModel{}; vm.HasTreeChanged(tree).
TestHasTreeChanged ==
    /\ entry = "TestHasTreeChanged"
    /\ hasChanged.calls < MaxCalls
    /\ \E tree \in TestTrees :
        /\ hasChanged' = Called(tree)
        /\ lastTree' = HasTreeChangedLast(lastTree, tree)
    /\ UNCHANGED <<entry, refreshInterval, ctxDone, topology, updateChan, mu,
                   mainPc, fetchCaller, fetchErr, clientRes, lastGood,
                   startErr, tickPending, listenerPc, dataTree, watcherPc,
                   uiQueue, mainPage, fetches, gen, builtGen, builds, appVars,
                   rabbitVars, uiAccess, details, stopVars>>

\* TestBuildTreeData: vm := NewViewModel(mockClient); vm.FetchTopology().
TestFetchTopology ==
    /\ entry = "TestBuildTreeData"
    /\ mainPc = "start"
    /\ FetchTopologyLock("test")
    /\ UNCHANGED <<entry, refreshInterval, ctxDone, topology, updateChan,
                   lastTree, fetchErr, clientRes, lastGood, startErr,
                   tickPending, listenerPc, dataTree, watcherPc, uiQueue,
                   mainPage, gen, builtGen, builds, hasChanged, appVars,
                   rabbitVars, uiAccess, details, stopVars>>

\* TestBuildTreeData: tree := vm.BuildTreeData(), and the diff of that tree.
TestBuildTreeData ==
    /\ entry = "TestBuildTreeData"
    /\ mainPc = "test"
    /\ topology # Nil
    /\ hasChanged.calls < MaxCalls
    /\ \E tree \in BuildTreeData(topology) :
        /\ dataTree' = tree
        /\ builds' = Built(tree)
        /\ hasChanged' = Called(tree)
        /\ lastTree' = HasTreeChangedLast(lastTree, tree)
    /\ UNCHANGED <<entry, refreshInterval, ctxDone, topology, updateChan, mu,
                   mainPc, fetchCaller, fetchErr, clientRes, lastGood,
                   startErr, tickPending, listenerPc, watcherPc, uiQueue,
                   mainPage, fetches, gen, builtGen, appVars, rabbitVars,
                   uiAccess, details, stopVars>>

\* ------------------------------------------------- StartExplorer (app.go)

\* A StartExplorer that starts the refresh goroutine before its initial
\* fetch.
startedRefreshEarly(phase, interval) == IF interval > 0 THEN "select" ELSE "off"

\* Where the goroutine of Explorer.StartAutoRefresh is once StartExplorer
\* has reached a phase: `go explorer.StartAutoRefresh(refreshInterval)` is
\* executed after InitUI, with an interval greater than zero only.
startedRefresh(phase, interval) ==
    IF phase = "InitUI" /\ interval > 0 THEN "select" ELSE "off"

\* StartExplorer: client.FetchTopology() is called.
StartExplorer ==
    /\ entry = "StartExplorer"
    /\ mainPc = "start"
    /\ fetches < MaxFetches
    /\ mainPc' = "startFetch"
    /\ fetches' = fetches + 1
    /\ refreshPc' = startedRefresh("FetchTopology", refreshInterval)
    /\ UNCHANGED <<entry, refreshInterval, clientRes, lastGood, startErr,
                   tickPending, uiQueue, mainPage, eTopology, stopAutoRefresh,
                   refreshMu, ExpandedNodes, selectedText, focus, stopCalls,
                   vmVars, rabbitVars, uiAccess, details, stopVars>>

\* The initial fetch returns: the error is returned, or NewExplorer,
\* InitUI (BuildVhostTree, AddPage("main")), `go StartAutoRefresh` when an
\* interval is given, and App.SetRoot(Pages, true).Run().
StartExplorerFetched ==
    /\ mainPc = "startFetch"
    /\ \E res \in ClientResults(BrokerSnapshots) :
        /\ clientRes' = res
        /\ lastGood' = IF res.err # NoErr THEN lastGood ELSE res.topology
        /\ IF res.err # NoErr
           THEN /\ startErr' = res.err
                /\ mainPc' = "returned"
                /\ UNCHANGED <<eTopology, mainPage, refreshPc, focus>>
           ELSE /\ eTopology' = res.topology
                /\ mainPage' = BuildVhostTree(res.topology)
                /\ refreshPc' = startedRefresh("InitUI", refreshInterval)
                /\ focus' = "tree"
                /\ mainPc' = "run"
                /\ startErr' = startErr
    /\ UNCHANGED <<entry, refreshInterval, tickPending, uiQueue, fetches,
                   stopAutoRefresh, refreshMu, ExpandedNodes, selectedText,
                   stopCalls, vmVars, rabbitVars, uiAccess, details,
                   stopVars>>

\* ---------------------------------------- Explorer.StartAutoRefresh (app.go)

\* select chooses `case <-ticker.C`: e.Client.FetchTopology() is called.
RefreshTick ==
    /\ refreshPc = "select"
    /\ tickPending
    /\ fetches + 1 < MaxFetches
    /\ tickPending' = FALSE
    /\ refreshPc' = "fetch"
    /\ fetches' = fetches + 1
    /\ UNCHANGED <<entry, refreshInterval, mainPc, clientRes, lastGood,
                   startErr, uiQueue, mainPage, eTopology, stopAutoRefresh,
                   refreshMu, ExpandedNodes, selectedText, focus, stopCalls,
                   vmVars, rabbitVars, uiAccess, details, stopVars>>

\* The fetch of the tick returns. On an error: log and continue. Otherwise
\* refreshMu.Lock(), e.Topology = newTopo and RefreshTreeView up to its own
\* e.Client.FetchTopology(): when a tree view with a current node has the
\* focus, the text of that node and the expansion flags of the view's tree.
RefreshFetched ==
    /\ refreshPc = "fetch"
    /\ \E res \in ClientResults(BrokerSnapshots) :
        /\ clientRes' = res
        /\ lastGood' = IF res.err # NoErr THEN lastGood ELSE res.topology
        /\ IF res.err # NoErr
           THEN /\ refreshPc' = AfterFailedRefresh(res.err)
                /\ UNCHANGED <<eTopology, refreshMu, selectedText,
                               ExpandedNodes, fetches, uiAccess>>
           ELSE /\ refreshMu' = "locked"
                /\ eTopology' = res.topology
                /\ IF focus = "tree" /\ mainPage # Nil /\ mainPage.Current # NoNode
                   THEN /\ selectedText' = NodeAt(mainPage.Root, mainPage.Current).Text
                        /\ ExpandedNodes' = collectExpandedNodes(mainPage.Root)
                   ELSE /\ selectedText' = ""
                        /\ ExpandedNodes' = ExpandedNodes
                /\ uiAccess' = uiAccess \cup
                        Access("refresh", RefreshTreeViewReads(focus, mainPage))
                /\ refreshPc' = "refetch"
                /\ fetches' = fetches + 1
    /\ UNCHANGED <<entry, refreshInterval, mainPc, startErr, tickPending,
                   uiQueue, mainPage, stopAutoRefresh, focus, stopCalls,
                   vmVars, rabbitVars, details, stopVars>>

\* The fetch of RefreshTreeView returns. On an error: log and return.
\* Otherwise e.Topology = newTopology, BuildVhostTree, restoreTreeState and
\* the queued swap of the page "main". Then refreshMu.Unlock().
RefreshRefetched ==
    /\ refreshPc = "refetch"
    /\ \E res \in ClientResults(BrokerSnapshots) :
        /\ clientRes' = res
        /\ lastGood' = IF res.err # NoErr THEN lastGood ELSE res.topology
        /\ IF res.err # NoErr
           THEN UNCHANGED <<eTopology, uiQueue>>
           ELSE /\ eTopology' = res.topology
                /\ uiQueue' =
                    Append(uiQueue,
                           [kind |-> "swap",
                            view |-> restoreTreeState(BuildVhostTree(res.topology),
                                                      ExpandedNodes, selectedText)])
    /\ refreshMu' = "free"
    /\ refreshPc' = "select"
    /\ UNCHANGED <<entry, refreshInterval, mainPc, startErr, tickPending,
                   mainPage, fetches, stopAutoRefresh, ExpandedNodes,
                   selectedText, focus, stopCalls, vmVars, rabbitVars,
                   uiAccess, details, stopVars>>

\* select chooses `case <-e.stopAutoRefresh`: StartAutoRefresh returns.
RefreshStop ==
    /\ refreshPc = "select"
    /\ stopAutoRefresh > 0
    /\ stopAutoRefresh' = stopAutoRefresh - 1
    /\ refreshPc' = "done"
    /\ UNCHANGED <<entry, refreshInterval, mainPc, clientRes, lastGood,
                   startErr, tickPending, uiQueue, mainPage, fetches,
                   eTopology, refreshMu, ExpandedNodes, selectedText, focus,
                   stopCalls, vmVars, rabbitVars, uiAccess, details,
                   stopVars>>

\* TestExplorer_StartAutoRefresh_Run: go e.StartAutoRefresh(interval) on an
\* Explorer whose InitUI never ran.
TestStartAutoRefresh ==
    /\ entry = "TestStartAutoRefresh"
    /\ mainPc = "start"
    /\ mainPc' = "test"
    /\ refreshPc' = "select"
    /\ UNCHANGED <<entry, refreshInterval, clientRes, lastGood, startErr,
                   tickPending, uiQueue, mainPage, fetches, eTopology,
                   stopAutoRefresh, refreshMu, ExpandedNodes, selectedText,
                   focus, stopCalls, vmVars, rabbitVars, uiAccess, details,
                   stopVars>>

\* TestExplorer_StartAutoRefresh_Run: e.StopAutoRefresh().
StopAutoRefresh ==
    /\ entry = "TestStartAutoRefresh"
    /\ stopCalls < MaxCalls
    /\ stopCalls' = stopCalls + 1
    /\ stopAutoRefresh' = stopSignal(stopAutoRefresh)
    /\ UNCHANGED <<entry, refreshInterval, mainPc, clientRes, lastGood,
                   startErr, tickPending, uiQueue, mainPage, fetches,
                   eTopology, refreshPc, refreshMu, ExpandedNodes,
                   selectedText, focus, vmVars, rabbitVars, uiAccess, details,
                   stopVars>>

\* ------------------------------------------------- key events (app.go)

\* The event loop handles an arrow key while the tree view has the focus:
\* the tree view moves its current node among the nodes it shows.
KeyArrow ==
    /\ mainPc = "run"
    /\ focus = "tree"
    /\ \E by \in {-1, 1} :
        /\ moveCurrent(mainPage, by) # mainPage.Current
        /\ mainPage' = [mainPage EXCEPT !.Current = moveCurrent(mainPage, by)]
    /\ uiAccess' = uiAccess \cup Access("eventLoop", {"current"})
    /\ UNCHANGED <<entry, refreshInterval, mainPc, clientRes, lastGood,
                   startErr, tickPending, uiQueue, fetches, vmVars, appVars,
                   rabbitVars, details, stopVars>>

\* The event loop handles Enter while the tree view has the focus: the
\* selected function of setupTreeHandlers toggles the expansion of a node
\* without reference and opens the page "details", whose text gets the
\* focus, for an exchange or a queue.
KeyEnter ==
    /\ mainPc = "run"
    /\ focus = "tree"
    /\ IF NodeAt(mainPage.Root, mainPage.Current).Reference = Nil
       THEN /\ mainPage' =
                [mainPage EXCEPT !.Root = toggleExpanded(@, mainPage.Current)]
            /\ focus' = focus
            /\ details' = details
            /\ uiAccess' = uiAccess \cup
                    Access("eventLoop", {"current", "expanded"})
       ELSE /\ focus' = "details"
            /\ details' =
                showDetails(NodeAt(mainPage.Root, mainPage.Current).Reference,
                            eTopology)
            /\ mainPage' = mainPage
            /\ uiAccess' = uiAccess \cup
                    Access("eventLoop", {"current", "pages", "focus"})
    /\ UNCHANGED <<entry, refreshInterval, mainPc, clientRes, lastGood,
                   startErr, tickPending, uiQueue, fetches, eTopology,
                   refreshPc, stopAutoRefresh, refreshMu, ExpandedNodes,
                   selectedText, stopCalls, vmVars, rabbitVars, stopVars>>

\* The event loop handles Esc: the input capture of the modal switches
\* back to the page "main", the one of the tree view calls App.Stop, on
\* which Run and StartExplorer return.
KeyEsc ==
    /\ mainPc = "run"
    /\ focus \in {"tree", "details"}
    /\ IF focus = "details"
       THEN /\ focus' = "tree"
            /\ details' = Nil
            /\ mainPc' = mainPc
            /\ uiAccess' = uiAccess \cup Access("eventLoop", {"pages", "focus"})
       ELSE /\ mainPc' = "returned"
            /\ focus' = focus
            /\ details' = details
            /\ uiAccess' = uiAccess
    /\ UNCHANGED <<entry, refreshInterval, clientRes, lastGood, startErr,
                   tickPending, uiQueue, mainPage, fetches, eTopology,
                   refreshPc, stopAutoRefresh, refreshMu, ExpandedNodes,
                   selectedText, stopCalls, vmVars, rabbitVars, stopVars>>

\* ---------------------------------------------- the detail views alone

\* formatExchangeDetails or formatQueueDetails on an Explorer over any
\* topology of DetailTopologies, for any of its exchanges and queues.
FormatDetails ==
    /\ entry = "FormatDetails"
    /\ mainPc = "start"
    /\ \E top \in DetailTopologies :
        /\ eTopology' = top
        /\ \/ \E i \in DOMAIN top.Exchanges :
                details' = formatExchangeDetails(top.Exchanges[i], top)
           \/ \E i \in DOMAIN top.Queues :
                details' = formatQueueDetails(top.Queues[i], top)
    /\ mainPc' = "test"
    /\ UNCHANGED <<entry, refreshInterval, clientRes, lastGood, startErr,
                   tickPending, uiQueue, mainPage, fetches, refreshPc,
                   stopAutoRefresh, refreshMu, ExpandedNodes, selectedText,
                   focus, stopCalls, vmVars, rabbitVars, uiAccess, stopVars>>

\* ------------------------------------------------ BuildVhostTree alone

\* TestExplorer_BuildVhostTree_Content: tree := e.BuildVhostTree() on an
\* Explorer over any topology whose exchanges and whose queues are unique
\* by (vhost, name).
TestBuildVhostTree ==
    /\ entry = "TestBuildVhostTree"
    /\ mainPc = "start"
    /\ \E top \in Topology :
        /\ eTopology' = top
        /\ mainPage' = BuildVhostTree(top)
    /\ mainPc' = "test"
    /\ UNCHANGED <<entry, refreshInterval, clientRes, lastGood, startErr,
                   tickPending, uiQueue, fetches, refreshPc, stopAutoRefresh,
                   refreshMu, ExpandedNodes, selectedText, focus, stopCalls,
                   vmVars, rabbitVars, uiAccess, details, stopVars>>

\* ------------------------------------------------ the tests of rabbitmq

\* TestTopology_Filter: a topology and the options of a case.
TestFilterCase ==
    /\ entry = "TestTopologyFilter"
    /\ mainPc = "start"
    /\ filterIn' \in FilterTopologies
    /\ filterOpts' \in Options
    /\ mainPc' = "filter"
    /\ UNCHANGED <<entry, refreshInterval, clientRes, lastGood, startErr,
                   tickPending, uiQueue, mainPage, fetches, vmVars, appVars,
                   filterOut, gets, uiAccess, details, stopVars>>

\* res := testTopology.Filter(tc.opts): the receiver is only read.
TestFilter ==
    /\ entry = "TestTopologyFilter"
    /\ mainPc = "filter"
    /\ filterOut' = Filter(filterIn, filterOpts)
    /\ mainPc' = "test"
    /\ UNCHANGED <<entry, refreshInterval, clientRes, lastGood, startErr,
                   tickPending, uiQueue, mainPage, fetches, vmVars, appVars,
                   filterIn, filterOpts, gets, uiAccess, details, stopVars>>

\* TestClient_FetchTopology_*: client.FetchTopology() is called.
TestClientFetchTopology ==
    /\ entry = "TestClientFetchTopology"
    /\ mainPc = "start"
    /\ mainPc' = "clientFetch"
    /\ UNCHANGED <<entry, refreshInterval, clientRes, lastGood, startErr,
                   tickPending, uiQueue, mainPage, fetches, vmVars, appVars,
                   rabbitVars, uiAccess, details, stopVars>>

\* Client.FetchTopology issues its next sub-request, and returns when that
\* one failed or was the last.
ClientGet ==
    /\ mainPc = "clientFetch"
    /\ Len(gets) < Len(SubRequests)
    /\ \E res \in GetResults(SubRequests[Len(gets) + 1]) :
        LET done == Append(gets, res)
        IN  /\ gets' = done
            /\ IF FetchTopologyReturns(done)
               THEN /\ clientRes' = FetchTopologyResult(done)
                    /\ mainPc' = "test"
               ELSE UNCHANGED <<clientRes, mainPc>>
    /\ UNCHANGED <<entry, refreshInterval, lastGood, startErr, tickPending,
                   uiQueue, mainPage, fetches, vmVars, appVars, filterIn,
                   filterOpts, filterOut, uiAccess, details, stopVars>>

\* ------------------------------------------------------- specification

Next ==
    \/ Start
    \/ ClientReturns
    \/ SignalUpdate
    \/ InitUI
    \/ Tick
    \/ LoopTick
    \/ LoopDone
    \/ Cancel
    \/ Stop
    \/ ListenerRecv
    \/ ListenerBuild
    \/ ListenerDiff
    \/ WatcherStop
    \/ RunUpdate
    \/ TestHasTreeChanged
    \/ TestFetchTopology
    \/ TestBuildTreeData
    \/ StartExplorer
    \/ StartExplorerFetched
    \/ RefreshTick
    \/ RefreshFetched
    \/ RefreshRefetched
    \/ RefreshStop
    \/ TestStartAutoRefresh
    \/ StopAutoRefresh
    \/ KeyArrow
    \/ KeyEnter
    \/ KeyEsc
    \/ FormatDetails
    \/ TestBuildVhostTree
    \/ TestFilterCase
    \/ TestFilter
    \/ TestClientFetchTopology
    \/ ClientGet

Spec == Init /\ [][Next]_vars

\* The steps of the thread that runs Start, up to the select of
\* StartAutoRefresh: a fetch in flight returns, the signal is sent, InitUI
\* runs.
MainThread == ClientReturns \/ SignalUpdate \/ InitUI

\* The steps of the goroutine of listenForUpdates.
ListenerThread == ListenerRecv \/ ListenerBuild \/ ListenerDiff

\* Fairness: a thread that can take a step eventually takes it, and a select
\* that is ready to choose ctx.Done() again and again eventually chooses it.
FairSpec ==
    /\ Spec
    /\ WF_vars(MainThread)
    /\ WF_vars(ListenerThread)
    /\ SF_vars(LoopDone)

\* Fairness for a whole session of Explorer.Start: besides FairSpec, the
\* goroutine that waits for ctx.Done() and the event loop of App.Run take
\* the steps they can take.
FairSessionSpec ==
    /\ FairSpec
    /\ WF_vars(WatcherStop)
    /\ WF_vars(RunUpdate)

\* The steps of the goroutine of Explorer.StartAutoRefresh between two
\* selects.
RefreshThread == RefreshFetched \/ RefreshRefetched

\* Fairness for the refresh loop of app.go: a fetch that was started
\* returns, and a select that finds e.stopAutoRefresh ready again and again
\* eventually chooses it.
FairRefreshSpec ==
    /\ Spec
    /\ WF_vars(RefreshThread)
    /\ SF_vars(RefreshStop)

\* ----------------------------------------------------------- properties

\* StartAutoRefresh of the ViewModel is running (it has not returned).
Polling ==
    /\ entry \in {"Start", "StartAndStop"}
    /\ refreshInterval > 0
    /\ mainPc = "select" \/ (mainPc \in {"fetching", "signal"} /\ fetchCaller = "loop")

\* StartAutoRefresh of the ViewModel has returned.
Stopped ==
    /\ entry \in {"Start", "StartAndStop"}
    /\ refreshInterval > 0
    /\ mainPc \in {"run", "returned"}
    /\ startErr = NoErr

\* This step is Client.FetchTopology returning inside ViewModel.FetchTopology.
ClientReturnsStep == mainPc = "fetching" /\ mainPc' # "fetching"

\* C1: no update is lost. Whenever the listener's last tree is older than
\* the committed snapshot, the listener eventually has a tree built from the
\* snapshot current at that time (snapshots are numbered in commit order, so
\* every committed snapshot is followed by a tree built from it or from a
\* later one); and whenever FetchTopology is not between its write of the
\* snapshot and its signal, the notification slot is empty and the listener
\* waits for a notification, the listener's last tree was built from the
\* current snapshot.
C1_NoUpdateLost ==
    /\ (entry = "Start" /\ startErr = NoErr /\ builtGen < gen)
            ~> (builtGen >= gen)
    /\ []((listenerPc = "recv" /\ updateChan = 0 /\ mainPc # "signal")
            => builtGen = gen)

\* C1 witness: two snapshots were committed, and the waiting listener has
\* built from the second with nothing left in the slot.
C1_Witness ==
    /\ listenerPc = "recv" /\ updateChan = 0 /\ mainPc = "select"
    /\ gen = 2 /\ builtGen = 2 /\ hasChanged.calls = 1

\* C2: the channel holds at most one notification, and the signal of
\* FetchTopology can always be taken, whatever the channel holds.
C2_SingleSlot ==
    /\ updateChan \in 0..ChanCap
    /\ mainPc = "signal" => ENABLED SignalUpdate

\* C2 witness: two signals were issued before the listener received any, and
\* the channel holds one notification.
C2_Witness ==
    /\ gen = 2 /\ mainPc = "select" /\ updateChan = 1
    /\ listenerPc = "recv" /\ builtGen = 0 /\ hasChanged.calls = 0

\* C3: when the client's FetchTopology fails, ViewModel.FetchTopology returns
\* that error, and the snapshot, the last rendered tree and the channel are
\* as they were.
C3_FailedFetch ==
    [][(ClientReturnsStep /\ clientRes'.err # NoErr) =>
            /\ fetchErr' = clientRes'.err
            /\ topology' = topology
            /\ lastTree' = lastTree
            /\ updateChan' = updateChan]_vars

\* C3 witness: a fetch of the refresh loop has failed while a snapshot, a
\* rendered tree and a pending notification existed.
C3_Witness ==
    /\ fetchErr \in Errors /\ mainPc = "select"
    /\ topology # Nil /\ lastTree # Nil

\* This step is a fetch of a tick of ViewModel.StartAutoRefresh failing.
FailedTickStep ==
    ClientReturnsStep /\ fetchCaller = "loop" /\ clientRes'.err # NoErr

\* Explorer.StartAutoRefresh (app.go) is running.
Refreshing == refreshPc \in {"select", "fetch", "refetch"}

\* This step is a fetch of Explorer.StartAutoRefresh or of its
\* RefreshTreeView failing.
FailedRefreshStep ==
    /\ refreshPc \in {"fetch", "refetch"}
    /\ refreshPc' # refreshPc
    /\ clientRes'.err # NoErr

\* C4: a failed fetch of a tick leaves the refresh loop selecting again, with
\* the snapshot the last one fetched without error; a pending tick can
\* always be taken by the selecting loop; and the loop ends only on its
\* cancellation (ctx.Done() of the ViewModel's loop, stopAutoRefresh of the
\* Explorer's).
C4_FailedFetchKeepsLoop ==
    /\ [][FailedTickStep =>
            (Polling' /\ mainPc' = "select" /\ topology' = lastGood')]_vars
    /\ [][(Polling /\ ~Polling') => ctxDone]_vars
    /\ []((Polling /\ mainPc = "select" /\ tickPending) => ENABLED LoopTick)
    /\ [][FailedRefreshStep =>
            /\ refreshPc' = "select"
            /\ eTopology' = eTopology
            /\ lastGood' # Nil => eTopology' = lastGood']_vars
    /\ [][(Refreshing /\ ~Refreshing') => stopAutoRefresh > 0]_vars
    /\ []((refreshPc = "select" /\ tickPending) => ENABLED RefreshTick)

\* C4 witness: a tick's fetch has failed, the snapshot of the initial fetch
\* is still there, and the fetch of a later tick is in flight.
C4_Witness ==
    /\ Polling /\ mainPc = "fetching" /\ fetches = 3
    /\ fetchErr \in Errors /\ gen = 1 /\ topology = lastGood

\* C5: once ctx is cancelled the loop starts no FetchTopology.
C5_NoFetchAfterCancel ==
    [][(ctxDone /\ Polling) => ~(mainPc = "select" /\ mainPc' = "fetching")]_vars

\* C6: after the cancellation StartAutoRefresh returns, and from then on
\* there is no fetch, no snapshot write and no notification.
C6_StopsForGood ==
    /\ (ctxDone /\ Polling) ~> Stopped
    /\ [][Stopped => /\ Stopped'
                     /\ fetches' = fetches
                     /\ topology' = topology
                     /\ gen' = gen
                     /\ updateChan' <= updateChan]_vars

\* C6 witness: the loop committed a snapshot of its own and has returned.
C6_Witness == Stopped /\ ctxDone /\ gen = 2

\* C7: two BuildTreeData calls on the same snapshot return equal trees.
C7_Deterministic ==
    (Len(builds) = 2 /\ builds[1].gen = builds[2].gen)
        => builds[1].tree = builds[2].tree

\* C8: when the listener has built a tree from a later snapshot whose content
\* equals that of the snapshot of the previous build, HasTreeChanged returns
\* false for it (and so the page is not replaced).
C8_NoOpRefresh ==
    (/\ entry = "Start" /\ listenerPc = "recv" /\ hasChanged.calls > 0
     /\ Len(builds) = 2
     /\ builds[1].gen < builds[2].gen
     /\ builds[1].top = builds[2].top)
        => ~hasChanged.ret

\* C9 as stated: the first HasTreeChanged call returns true, whatever the
\* argument.
C9_FirstCallTrue == hasChanged.calls = 1 => hasChanged.ret

\* C9 amended: the first HasTreeChanged call returns true for every argument
\* that is not nil.
C9_FirstCallTrueNonNil ==
    (hasChanged.calls = 1 /\ hasChanged.arg # Nil) => hasChanged.ret

\* C9 witness: a first call with a tree that has children.
C9_Witness ==
    /\ entry = "TestHasTreeChanged" /\ hasChanged.calls = 1
    /\ hasChanged.arg # Nil /\ Len(hasChanged.arg.Children) = 2
    /\ hasChanged.ret

\* C10: HasTreeChanged returns true exactly when its argument differs from
\* the stored tree: in a label, in a number of children, or in a child.
C10_ChangedIffDifferent ==
    hasChanged.calls > 0 => (hasChanged.ret <=> hasChanged.arg # hasChanged.last)

\* C10 witness: a second call whose argument equals the stored tree, children
\* included, and returns false.
C10_Witness ==
    /\ hasChanged.calls = 2 /\ ~hasChanged.ret
    /\ hasChanged.arg # Nil /\ Len(hasChanged.arg.Children) = 2
    /\ hasChanged.arg = hasChanged.last

\* This step is a call of HasTreeChanged.
HasTreeChangedStep == hasChanged'.calls = hasChanged.calls + 1

\* C11: a call of HasTreeChanged that returns true stores its argument, one
\* that returns false leaves the last rendered tree as it was; either way
\* the last rendered tree then equals the argument, and the snapshot and the
\* notification slot are not modified.
C11_ChangesOnlyOnInequality ==
    [][HasTreeChangedStep =>
            /\ hasChanged'.ret => lastTree' = hasChanged'.arg
            /\ ~hasChanged'.ret => lastTree' = lastTree
            /\ lastTree' = hasChanged'.arg
            /\ topology' = topology
            /\ updateChan' = updateChan]_vars

\* C11 witness: the listener's call returned true for the tree of a second
\* snapshot and stored it in place of the tree of the first.
C11_Witness ==
    /\ entry = "Start" /\ hasChanged.calls = 2 /\ hasChanged.ret
    /\ hasChanged.last # Nil /\ lastTree = hasChanged.arg
    /\ lastTree # hasChanged.last

\* C13: from the moment the listener has built a tree from the snapshot to
\* the moment HasTreeChanged has compared and stored it, FetchTopology
\* commits no snapshot.
C13_BuildAndDiffAtomic ==
    [][listenerPc = "diff" => (topology' = topology /\ gen' = gen)]_vars

\* This step is the initial fetch of Start or of StartExplorer failing.
FailedInitialFetchStep ==
    /\ \/ ClientReturnsStep /\ fetchCaller = "Start"
       \/ mainPc = "startFetch" /\ mainPc' # "startFetch"
    /\ clientRes'.err # NoErr

\* C14: when the initial fetch fails, Start (StartExplorer) returns the
\* error of the fetch; and a session that returned an error has no page, no
\* listener, no refresh loop, no ticker, no watcher and no queued update,
\* and stays returned (it never runs the event loop).
C14_InitialFetchFatal ==
    /\ [][FailedInitialFetchStep =>
            (mainPc' = "returned" /\ startErr' = clientRes'.err)]_vars
    /\ [](startErr # NoErr =>
            /\ mainPc = "returned"
            /\ mainPage = Nil
            /\ listenerPc = "off"
            /\ watcherPc = "off"
            /\ refreshPc = "off"
            /\ ~tickPending
            /\ uiQueue = <<>>
            /\ fetches = 1)
    /\ [][startErr # NoErr => startErr' = startErr]_vars

\* C14 witness: Start has returned the error of its initial fetch.
C14_Witness ==
    /\ entry = "Start" /\ mainPc = "returned" /\ startErr = "timeout"
    /\ clientRes.err = "timeout" /\ refreshInterval > 0

\* This step is the return of a successful ViewModel.FetchTopology: the
\* signal and the deferred Unlock.
FetchTopologyUnlockStep == mainPc = "signal" /\ mainPc' # "signal"

\* C15: a successful fetch makes the value the client returned the
\* snapshot, and when FetchTopology releases the lock the channel holds a
\* notification and the snapshot is still that value.
C15_PublishedWithNotification ==
    /\ [][(ClientReturnsStep /\ clientRes'.err = NoErr) =>
            topology' = clientRes'.topology]_vars
    /\ [][FetchTopologyUnlockStep =>
            /\ mu' = "free"
            /\ updateChan' = ChanCap
            /\ topology' = clientRes.topology]_vars

\* C15 witness: a tick's fetch replaced the snapshot by a different one and
\* has returned, a notification pending.
C15_Witness ==
    /\ entry = "Start" /\ gen = 2 /\ mainPc = "select" /\ updateChan = 1
    /\ topology = clientRes.topology /\ Len(builds) > 0
    /\ builds[Len(builds)].top # topology

\* The session is up: the initial fetch succeeded and no UI was built yet
\* (Start), or StartExplorer is in App.Run.
SessionUp ==
    \/ entry = "Start" /\ mainPc = "initUI"
    \/ entry = "StartExplorer" /\ mainPc = "run"

\* The thread that called Start (StartExplorer) is in App.Run while the
\* refresh loop is running.
EventLoopWhilePolling ==
    /\ mainPc = "run"
    /\ \/ entry = "Start" /\ Polling
       \/ entry = "StartExplorer" /\ Refreshing

\* C16: with an interval, the session that is up and not cancelled comes to
\* run the event loop while the refresh loop polls, unless it is cancelled
\* first.
C16_LoopInBackground ==
    (SessionUp /\ refreshInterval > 0 /\ ~ctxDone)
        ~> (EventLoopWhilePolling \/ ctxDone)

\* ------------------------------------------------------------- C18, C19

Kinds == {"Exchanges", "Queues", "Bindings", "Consumers"}

\* Filter has returned in a case of TestTopology_Filter.
Filtered == entry = "TestTopologyFilter" /\ mainPc = "test"

\* The positions of in whose element has Vhost v.
VhostIdx(in, v) == {i \in DOMAIN in : in[i].Vhost = v}

\* The positions of in whose element has Name n.
NameIdx(in, n) == {i \in DOMAIN in : in[i].Name = n}

\* The j-th smallest position of K.
nthOf(K, j) == CHOOSE i \in K : Cardinality({k \in K : k < i}) = j - 1

\* out is in restricted to the positions K: nothing else, nothing twice,
\* in the order of in, every element with all the fields it had in in.
Restricted(in, out, K) ==
    /\ Len(out) = Cardinality(K)
    /\ \A j \in 1..Len(out) : out[j] = in[nthOf(K, j)]

\* C18 as stated: with a non-empty vhost filter v, each of Exchanges,
\* Queues, Bindings and Consumers of the result is exactly the input's
\* elements whose Vhost is v, in their order and with their fields.
C18_VhostFilterExact ==
    (Filtered /\ filterOpts.FilterVhost # "") =>
        \A k \in Kinds :
            Restricted(filterIn[k], filterOut[k],
                       VhostIdx(filterIn[k], filterOpts.FilterVhost))

\* C18, amended: with a non-empty vhost filter v, Queues, Bindings and
\* Consumers of the result are exactly the input's elements whose Vhost is
\* v, and Exchanges exactly those whose Vhost is v and, when the exchange
\* filter is non-empty too, whose Name is the exchange filter; relative
\* order and fields are kept, and the call does not modify the input.
C18_VhostFilter ==
    /\ [](Filtered /\ filterOpts.FilterVhost # "" =>
            /\ \A k \in Kinds \ {"Exchanges"} :
                Restricted(filterIn[k], filterOut[k],
                           VhostIdx(filterIn[k], filterOpts.FilterVhost))
            /\ Restricted(filterIn.Exchanges, filterOut.Exchanges,
                   IF filterOpts.FilterExchange = ""
                   THEN VhostIdx(filterIn.Exchanges, filterOpts.FilterVhost)
                   ELSE VhostIdx(filterIn.Exchanges, filterOpts.FilterVhost)
                        \cap NameIdx(filterIn.Exchanges,
                                     filterOpts.FilterExchange)))
    /\ [][(mainPc = "filter" /\ mainPc' = "test") =>
            (filterIn' = filterIn /\ filterOpts' = filterOpts)]_vars

\* A vhost filter dropped an element between two it kept, of the exchanges
\* and of the queues.
C18_Witness ==
    /\ Filtered
    /\ filterOpts.FilterVhost = "vh1"
    /\ \A k \in {"Exchanges", "Queues"} :
        /\ Len(filterIn[k]) = 3
        /\ Len(filterOut[k]) = 2
        /\ filterOut[k][1] # filterOut[k][2]

\* C19: without a vhost filter, Queues, Bindings and Consumers of the result
\* equal the input's element for element and Exchanges is the input's
\* exchanges whose Name is the exchange filter; with both filters empty all
\* four sequences equal the input's.
C19_ExchangeFilterOnlyExchanges ==
    (Filtered /\ filterOpts.FilterVhost = "") =>
        /\ \A k \in Kinds \ {"Exchanges"} :
            /\ Len(filterOut[k]) = Len(filterIn[k])
            /\ \A i \in DOMAIN filterIn[k] : filterOut[k][i] = filterIn[k][i]
        /\ filterOpts.FilterExchange # "" =>
            Restricted(filterIn.Exchanges, filterOut.Exchanges,
                       NameIdx(filterIn.Exchanges, filterOpts.FilterExchange))
        /\ filterOpts.FilterExchange = "" =>
            /\ Len(filterOut.Exchanges) = Len(filterIn.Exchanges)
            /\ \A i \in DOMAIN filterIn.Exchanges :
                filterOut.Exchanges[i] = filterIn.Exchanges[i]

\* An exchange filter alone dropped an exchange and kept exchanges of two
\* vhosts and every queue, binding and consumer of two vhosts.
C19_Witness ==
    /\ Filtered
    /\ filterOpts = [FilterVhost |-> "", FilterExchange |-> "ex1"]
    /\ Len(filterOut.Exchanges) < Len(filterIn.Exchanges)
    /\ {filterOut.Exchanges[i].Vhost : i \in DOMAIN filterOut.Exchanges}
        = {"vh1", "vh2"}
    /\ {filterOut.Queues[i].Vhost : i \in DOMAIN filterOut.Queues}
        = {"vh1", "vh2"}

\* ------------------------------------------------------------------ C20

\* Client.FetchTopology is running or has returned in a test of the client.
InClientTest == entry = "TestClientFetchTopology" /\ mainPc # "start"

\* C20: Client.FetchTopology issues its sub-requests in the order exchanges,
\* queues, bindings, consumers; after the first one that fails it issues no
\* other and returns that one's error unchanged and no topology; it returns
\* a topology only when all four succeeded.
C20_SequentialFailFast ==
    InClientTest =>
        /\ Len(gets) <= 4
        /\ \A i \in DOMAIN gets :
            /\ gets[i].path = <<"exchanges", "queues", "bindings", "consumers">>[i]
            /\ gets[i].err # NoErr => i = Len(gets)
        /\ mainPc = "clientFetch" =>
            /\ Len(gets) < 4
            /\ \A i \in DOMAIN gets : gets[i].err = NoErr
        /\ mainPc = "test" =>
            /\ gets # <<>>
            /\ IF gets[Len(gets)].err # NoErr
               THEN /\ clientRes.err = gets[Len(gets)].err
                    /\ clientRes.topology = Nil
               ELSE /\ Len(gets) = 4
                    /\ clientRes.err = NoErr
                    /\ clientRes.topology =
                        [Exchanges |-> gets[1].value, Queues |-> gets[2].value,
                         Bindings |-> gets[3].value,
                         Consumers |-> gets[4].value]

\* FetchTopology returned the error of its second sub-request, as in
\* TestClient_FetchTopology_FailMiddle.
C20_Witness ==
    /\ InClientTest
    /\ mainPc = "test"
    /\ Len(gets) = 2
    /\ gets[1].value # <<>>
    /\ gets[2].err # NoErr
    /\ clientRes.err = gets[2].err

\* ------------------------------------------------------------------ C17

\* C17: the background refresh never touches displayed UI state: every read
\* or write of the displayed widget tree (focus, current node, expansion
\* flags, pages) is made by the event loop.
C17_UiStateOnlyOnEventLoop ==
    \A a \in uiAccess : a.by = "eventLoop"

\* ------------------------------------------------------------------ C12

\* The labels of the nodes of a tree, and those of its expanded nodes.
Labels(root) ==
    LET paths == walk(root, <<>>)
    IN  {NodeAt(root, paths[i]).Text : i \in DOMAIN paths}
ExpandedLabels(root) ==
    LET paths == walk(root, <<>>)
    IN  {NodeAt(root, paths[i]).Text :
            i \in {j \in DOMAIN paths : NodeAt(root, paths[j]).Expanded}}

\* The event loop of StartExplorer replaces the displayed tree by the tree
\* of another topology (one with other labels).
RebuiltStep ==
    /\ entry = "StartExplorer"
    /\ mainPc = "run"
    /\ uiQueue # <<>>
    /\ uiQueue' = Tail(uiQueue)
    /\ Head(uiQueue).kind = "swap"
    /\ Labels(Head(uiQueue).view.Root) # Labels(mainPage.Root)

\* C12: whenever the displayed tree is rebuilt because the topology
\* changed, every label expanded in the displayed tree before the rebuild
\* that still exists in the new tree is expanded in it, and when the label
\* of the node selected before still exists, a node with that label is the
\* current node of the newly displayed tree.
C12_StatePreserved ==
    [][RebuiltStep =>
        LET old == mainPage
            new == mainPage'
            paths == walk(new.Root, <<>>)
            selected == NodeAt(old.Root, old.Current).Text
        IN  /\ \A i \in DOMAIN paths :
                NodeAt(new.Root, paths[i]).Text \in ExpandedLabels(old.Root)
                    => NodeAt(new.Root, paths[i]).Expanded
            /\ selected \in Labels(new.Root) =>
                NodeAt(new.Root, new.Current).Text = selected]_vars

\* ------------------------------------------------------------------ C21

\* The vhosts occurring among the exchanges and queues of a snapshot.
VhostsOf(top) ==
    {top.Exchanges[i].Vhost : i \in DOMAIN top.Exchanges}
        \cup {top.Queues[i].Vhost : i \in DOMAIN top.Queues}

\* How many elements of the sequence nodes have the label text.
CountText(nodes, text) == Cardinality({i \in DOMAIN nodes : nodes[i].Text = text})

\* The node of vhost v has one leaf per exchange and per queue of v in top,
\* and nothing else.
VhostNodeOf(node, top, v) ==
    LET exs == {i \in DOMAIN top.Exchanges : top.Exchanges[i].Vhost = v}
        qs == {i \in DOMAIN top.Queues : top.Queues[i].Vhost = v}
    IN  /\ Len(node.Children) = Cardinality(exs) + Cardinality(qs)
        /\ \A k \in DOMAIN node.Children : node.Children[k].Children = <<>>
        /\ \A i \in exs :
            CountText(node.Children, "Exchange: " \o top.Exchanges[i].Name)
                = Cardinality({j \in exs :
                    top.Exchanges[j].Name = top.Exchanges[i].Name})
        /\ \A i \in qs :
            CountText(node.Children, "Queue: " \o top.Queues[i].Name)
                = Cardinality({j \in qs : top.Queues[j].Name = top.Queues[i].Name})

\* C21: the tree BuildTreeData returns for a snapshot is a root labelled
\* "RabbitMQ Topology" with exactly one child per vhost occurring among the
\* snapshot's exchanges and queues, that child having exactly one leaf per
\* exchange ("Exchange: " name) and per queue ("Queue: " name) of the
\* vhost; for an empty snapshot the root has no children.
C21_TreeShape ==
    \A b \in DOMAIN builds :
        LET top == builds[b].top
            tree == builds[b].tree
        IN  /\ tree # Nil
            /\ tree.Text = "RabbitMQ Topology"
            /\ Len(tree.Children) = Cardinality(VhostsOf(top))
            /\ \A v \in VhostsOf(top) :
                /\ CountText(tree.Children, "VHost: " \o v) = 1
                /\ \A k \in DOMAIN tree.Children :
                    tree.Children[k].Text = "VHost: " \o v
                        => VhostNodeOf(tree.Children[k], top, v)
            /\ (top.Exchanges = <<>> /\ top.Queues = <<>>) => tree.Children = <<>>

\* BuildTreeData has built the tree of a snapshot with two vhosts, one of
\* which has an exchange and a queue, and the tree of an empty snapshot.
C21_Witness ==
    /\ Len(builds) = 2
    /\ builds[1].top.Exchanges = <<>> /\ builds[1].top.Queues = <<>>
    /\ Cardinality(VhostsOf(builds[2].top)) = 2
    /\ \E k \in DOMAIN builds[2].tree.Children :
        Len(builds[2].tree.Children[k].Children) = 2

\* ------------------------------------------------------------------ C22

\* The event loop handles Enter on the current node of the tree view: the
\* only step of the event loop that flips an expansion flag or opens the
\* page "details".
SelectStep ==
    /\ mainPc = "run"
    /\ focus = "tree"
    /\ uiQueue' = uiQueue
    /\ mainPage'.Root # mainPage.Root \/ focus' = "details"

\* The label addExchangeNodes / addQueueNodes gives the leaf of an entity.
LeafLabel(kind, entity) ==
    IF kind = "Exchange"
    THEN "Exchange: " \o entity.Name \o " (" \o entity.Type \o ")"
    ELSE "Queue: " \o entity.Name

\* C22: selecting a node with an exchange or queue payload opens the detail
\* modal of that entity (the one the leaf is labelled with, of the vhost the
\* leaf is under) and changes no expansion flag; selecting a node without
\* payload flips the expansion flag of that node only and opens no modal.
C22_SelectOpensOrToggles ==
    [][SelectStep =>
        LET at == mainPage.Current
            node == NodeAt(mainPage.Root, at)
            paths == walk(mainPage.Root, <<>>)
        IN  IF node.Reference # Nil
            THEN /\ focus' = "details"
                 /\ details' # Nil
                 /\ LeafLabel(details'.kind, details'.entity) = node.Text
                 /\ NodeAt(mainPage.Root, SubSeq(at, 1, Len(at) - 1)).Text
                        = "Vhost: " \o details'.entity.Vhost
                 /\ mainPage' = mainPage
            ELSE /\ focus' = "tree"
                 /\ details' = details
                 /\ mainPage'.Current = at
                 /\ walk(mainPage'.Root, <<>>) = paths
                 /\ \A i \in DOMAIN paths :
                    LET old == NodeAt(mainPage.Root, paths[i])
                        new == NodeAt(mainPage'.Root, paths[i])
                    IN  /\ new.Text = old.Text
                        /\ new.Reference = old.Reference
                        /\ new.Expanded =
                            IF paths[i] = at THEN ~old.Expanded ELSE old.Expanded]_vars

\* The user has expanded a vhost node and opened the details of a leaf
\* under it.
C22_Witness ==
    /\ entry = "StartExplorer"
    /\ focus = "details"
    /\ details # Nil
    /\ Len(mainPage.Current) = 2
    /\ NodeAt(mainPage.Root, <<mainPage.Current[1]>>).Expanded

\* ------------------------------------------------------------------ C23

\* A detail view of the topology e.Topology has been formatted.
Formatted == entry = "FormatDetails" /\ mainPc = "test"

\* Binding b references the entity by name within the entity's vhost: an
\* exchange as its source or as its destination, a queue as its
\* destination.
References(b, kind, entity) ==
    /\ b.Vhost = entity.Vhost
    /\ IF kind = "Exchange"
       THEN \/ b.Source = entity.Name
            \/ b.Destination = entity.Name /\ b.DestType = "exchange"
       ELSE b.Destination = entity.Name /\ b.DestType = "queue"

\* The positions of the bindings of top that reference the entity, and of
\* the consumers of top that consume from the queue.
ReferencingIdx(top, kind, entity) ==
    {i \in DOMAIN top.Bindings : References(top.Bindings[i], kind, entity)}
ConsumingIdx(top, kind, entity) ==
    {i \in DOMAIN top.Consumers :
        /\ kind = "Queue"
        /\ top.Consumers[i].Queue = entity.Name
        /\ top.Consumers[i].Vhost = entity.Vhost}

\* C23: the detail view of an entity lists exactly the bindings of the
\* snapshot that reference the entity by name, as source or as destination,
\* within its vhost, and for a queue exactly the consumers of its name and
\* vhost: none of another vhost or entity, and none that matches omitted.
C23_DetailsListExactly ==
    Formatted =>
        /\ Restricted(eTopology.Bindings, details.bindings,
                      ReferencingIdx(eTopology, details.kind, details.entity))
        /\ Restricted(eTopology.Consumers, details.consumers,
                      ConsumingIdx(eTopology, details.kind, details.entity))

\* ------------------------------------------------------------------ C24

\* The labels and the shape of a tree of nodes, without flags or payload.
RECURSIVE Skeleton(_)
Skeleton(node) ==
    [Text |-> node.Text,
     Children |-> [i \in DOMAIN node.Children |-> Skeleton(node.Children[i])]]

\* The page holds a whole tree: every node of the tree of some snapshot of
\* the broker, as BuildVhostTree (app.go) or BuildTreeData and RenderTree
\* (explorer.go) build it, and a current node or none.
CompleteTree(page) ==
    /\ \E top \in BrokerSnapshots :
        \/ Skeleton(page.Root) = Skeleton(BuildVhostTree(top).Root)
        \/ \E tree \in BuildTreeData(top) : Skeleton(page.Root) = Skeleton(tree)
    /\ \/ page.Current = NoNode
       \/ \E i \in DOMAIN walk(page.Root, <<>>) :
            walk(page.Root, <<>>)[i] = page.Current

\* C24: the page swap is atomic for the event loop. Whenever the event loop
\* can draw or handle input there is a page "main" and it holds a whole
\* tree; the page changes only in a step of the event loop, to the tree of
\* the oldest queued update as it was queued or by a key on the tree view;
\* and RefreshTreeView queues a tree to which restoreTreeState has already
\* been applied.
C24_SwapAtomic ==
    /\ [](mainPc = "run" => mainPage # Nil /\ CompleteTree(mainPage))
    /\ [][mainPage' # mainPage /\ mainPage # Nil =>
            /\ mainPc = "run"
            /\ \/ /\ uiQueue # <<>>
                  /\ uiQueue' = Tail(uiQueue)
                  /\ Head(uiQueue).kind = "swap"
                  /\ mainPage' = Head(uiQueue).view
               \/ focus = "tree" /\ uiQueue' = uiQueue]_vars
    /\ [][(refreshPc = "refetch" /\ Len(uiQueue') > Len(uiQueue)) =>
            LET view == uiQueue'[Len(uiQueue')].view
            IN  /\ CompleteTree(view)
                /\ restoreTreeState(view, ExpandedNodes, selectedText) = view]_vars

\* The event loop has swapped in the tree RefreshTreeView queued after its
\* fetch, the third of the session, and the tree has a vhost node expanded
\* by restoreTreeState.
C24_Witness ==
    /\ entry = "StartExplorer"
    /\ mainPc = "run"
    /\ refreshPc = "select"
    /\ fetches = 3
    /\ clientRes.err = NoErr
    /\ uiQueue = <<>>
    /\ Skeleton(mainPage.Root) = Skeleton(BuildVhostTree(lastGood).Root)
    /\ \E i \in DOMAIN mainPage.Root.Children :
        /\ mainPage.Root.Children[i].Expanded
        /\ mainPage.Root.Children[i].Text \in DOMAIN ExpandedNodes
        /\ ExpandedNodes[mainPage.Root.Children[i].Text]

\* ------------------------------------------------------------------ C25

\* The listener's call of HasTreeChanged on the tree it has just built
\* returns.
ListenerDiffStep == listenerPc = "diff" /\ listenerPc' = "recv"

\* C25: HasTreeChanged is the sole gate for redraw in the listener. The
\* listener queues the replacement of the page "main", by the tree it
\* built for the notification, exactly when HasTreeChanged returned true
\* for that tree; when it returned false the listener queues nothing and
\* changes no page; and no other step of the listener queues an update or
\* changes a page.
C25_SoleGate ==
    [][/\ ListenerDiffStep =>
            /\ hasChanged'.arg = dataTree
            /\ hasChanged'.ret = ~treeEqual(lastTree, dataTree)
            /\ mainPage' = mainPage
            /\ IF hasChanged'.ret
               THEN /\ Len(uiQueue') = Len(uiQueue) + 1
                    /\ SubSeq(uiQueue', 1, Len(uiQueue)) = uiQueue
                    /\ uiQueue'[Len(uiQueue')].kind = "swap"
                    /\ uiQueue'[Len(uiQueue')].view.Root = RenderTree(dataTree)
               ELSE uiQueue' = uiQueue
       /\ (listenerPc # "off" /\ listenerPc' # listenerPc /\ ~ListenerDiffStep) =>
            uiQueue' = uiQueue /\ mainPage' = mainPage
       /\ (entry = "Start" /\ Len(uiQueue') > Len(uiQueue)
                /\ uiQueue'[Len(uiQueue')].kind = "swap") => ListenerDiffStep]_vars

\* The listener has skipped a redraw: HasTreeChanged returned false for the
\* tree of its second notification, after a first swap was displayed.
C25_Witness ==
    /\ entry = "Start"
    /\ listenerPc = "recv"
    /\ hasChanged.calls = 2
    /\ ~hasChanged.ret
    /\ uiQueue = <<>>
    /\ mainPage # Nil
    /\ mainPage.Current = NoNode

\* ------------------------------------------------------------------ C26

\* C26: when Start was given a context made by context.WithCancel, a call
\* of Explorer.Stop cancels that context (so that the refresh loop stops
\* and the UI is torn down): once Stop has returned the context is done.
C26_StopCancels ==
    (entry = "StartAndStop" /\ stopped) => ctxDone

\* ------------------------------------------------------------------ C27

\* Explorer.StartAutoRefresh is running: selecting or fetching.
Refreshes == refreshPc \in {"select", "fetch", "refetch"}

ShowsSnapshot(d, top) ==
    /\ IF d.kind = "Exchange"
       THEN \E i \in DOMAIN top.Exchanges : top.Exchanges[i] = d.entity
       ELSE \E i \in DOMAIN top.Queues : top.Queues[i] = d.entity
    /\ d = showDetails([kind |-> d.kind, val |-> d.entity], top)

\* C28: a detail view that is opened shows the entity, the bindings and
\* the consumers of one and the same snapshot of the broker, also when the
\* background refresh has replaced e.Topology since the displayed tree was
\* built.
C28_NoTornRead ==
    [][(SelectStep /\ focus' = "details") =>
        \E top \in BrokerSnapshots : ShowsSnapshot(details', top)]_vars

\* ------------------------------------------------------------------ C29

\* The event loop of StartExplorer runs a queued page swap.
SwapStep ==
    /\ entry = "StartExplorer"
    /\ mainPc = "run"
    /\ uiQueue # <<>>
    /\ uiQueue' = Tail(uiQueue)
    /\ Head(uiQueue).kind = "swap"

\* C29: no expansion toggle and no selection change of the user is lost to
\* a concurrent refresh: at every page swap, a label of both the tree
\* displayed before and the tree displayed after is expanded in the one
\* exactly when it is in the other, and the label of the node selected
\* before, when the new tree has it, is the label of its current node.
C29_NoInputLost ==
    [][SwapStep =>
        LET old == mainPage
            new == mainPage'
            selected == NodeAt(old.Root, old.Current).Text
        IN  /\ ExpandedLabels(new.Root) \cap Labels(old.Root)
                = ExpandedLabels(old.Root) \cap Labels(new.Root)
            /\ selected \in Labels(new.Root) =>
                NodeAt(new.Root, new.Current).Text = selected]_vars

\* ------------------------------------------------------------------ C30

\* RefreshTreeView has passed its capture and has started its fetch, while
\* a tree is displayed.
CaptureStep ==
    /\ refreshPc = "fetch"
    /\ refreshPc' = "refetch"
    /\ mainPage # Nil

\* C30: before every rebuild the expansion flags and the selected label
\* are captured from the displayed tree, whichever widget has the focus:
\* after the capture of RefreshTreeView, selectedText is the label of the
\* displayed tree's current node and ExpandedNodes holds the flags of its
\* nodes, never an older capture and never nothing.
C30_CaptureAlways ==
    [][CaptureStep =>
        /\ selectedText' = NodeAt(mainPage.Root, mainPage.Current).Text
        /\ ExpandedNodes' = collectExpandedNodes(mainPage.Root)]_vars

\* ------------------------------------------------------------------ C31

\* BuildVhostTree has been called on an Explorer over any topology.
BuiltVhostTree == entry = "TestBuildVhostTree" /\ mainPc = "test"

\* C31: in the tree BuildVhostTree makes of a snapshot whose exchanges and
\* whose queues are unique by (vhost, name), no two nodes have the same
\* label, and restoring the selection by the label of any node makes that
\* very node the current one.
C31_LabelsUnique ==
    BuiltVhostTree =>
        LET paths == walk(mainPage.Root, <<>>)
            text(i) == NodeAt(mainPage.Root, paths[i]).Text
        IN  /\ \A i, j \in DOMAIN paths : text(i) = text(j) => i = j
            /\ \A i \in DOMAIN paths :
                restoreTreeState(mainPage, collectExpandedNodes(mainPage.Root),
                                 text(i)).Current = paths[i]

\* ------------------------------------------------------------------ C32

\* The goroutines InitUI started have all ended: listenForUpdates has left
\* its loop, the ViewModel's StartAutoRefresh has returned, and the
\* goroutine waiting for ctx.Done() has queued the stop.
BackgroundEnded ==
    /\ listenerPc = "done"
    /\ watcherPc = "done"
    /\ ~Polling

\* C32: once the context is cancelled in a session whose InitUI has
\* started the background activities, all of them eventually have ended.
C32_AllTerminate ==
    (entry = "Start" /\ ctxDone /\ listenerPc # "off") ~> BackgroundEnded

\* ------------------------------------------------------------------ C33

\* The event loop of Explorer.Start stops: App.Run and Start return.
RunReturnsStep ==
    /\ entry \in {"Start", "StartAndStop"}
    /\ mainPc = "run"
    /\ mainPc' = "returned"

\* C33: once the session context is cancelled and Explorer.Start has been
\* called, Start eventually returns to its caller; the event loop stops only on a stop request that
\* was queued onto it, and such a request is queued only after the
\* cancellation.
C33_CancelTearsDown ==
    /\ (entry = "Start" /\ mainPc # "start" /\ ctxDone) ~> (mainPc = "returned")
    /\ [][RunReturnsStep =>
            (uiQueue # <<>> /\ Head(uiQueue).kind = "stop" /\ ctxDone)]_vars
    /\ [][(\E i \in DOMAIN uiQueue' : uiQueue'[i].kind = "stop") => ctxDone]_vars

\* The context was cancelled while the session displayed a tree of a
\* refreshed snapshot, the stop request went through the event loop and
\* Start has returned without error.
C33_Witness ==
    /\ entry = "Start"
    /\ ctxDone
    /\ mainPc = "returned"
    /\ startErr = NoErr
    /\ watcherPc = "done"
    /\ gen = 2
    /\ uiQueue = <<>>

\* ------------------------------------------------------------------ C34

\* The fetch a tick of Explorer.StartAutoRefresh started returns.
TickFetchReturns == refreshPc = "fetch" /\ refreshPc' # "fetch"

\* The refresh of a tick queues the tree it rendered.
TickRendered ==
    /\ Refreshing
    /\ Len(uiQueue') > Len(uiQueue)
    /\ uiQueue'[Len(uiQueue')].kind = "swap"

\* C34: a tick costs one call of FetchTopology. When the fetch of a tick
\* of either loop returns, no further fetch is started for that tick; the
\* snapshot the Explorer's loop commits is the result of that call, and the
\* tree queued for display is the one built from it.
C34_OneFetchPerTick ==
    /\ [][(ClientReturnsStep /\ fetchCaller = "loop") => fetches' = fetches]_vars
    /\ [][TickFetchReturns =>
            /\ fetches' = fetches
            /\ refreshPc' = "select"
            /\ clientRes'.err = NoErr => eTopology' = clientRes'.topology]_vars
    /\ [][TickRendered =>
            /\ refreshPc = "fetch"
            /\ Labels(uiQueue'[Len(uiQueue')].view.Root)
                = Labels(BuildVhostTree(clientRes'.topology).Root)]_vars

\* ------------------------------------------------------------------ C35

\* The event loop of Explorer.Start runs and nothing is under way that
\* could still change the display: the thread of Start is in App.Run (so
\* no fetch is in flight), the listener waits for a notification, the slot
\* is empty, and no page swap is queued.
Quiescent ==
    /\ entry = "Start"
    /\ mainPc = "run"
    /\ listenerPc = "recv"
    /\ updateChan = 0
    /\ \A i \in DOMAIN uiQueue : uiQueue[i].kind # "swap"

\* The displayed tree is structurally a tree BuildTreeData makes of the
\* current snapshot.
DisplayedCurrent ==
    /\ topology # Nil
    /\ mainPage # Nil
    /\ \E tree \in BuildTreeData(topology) : mainPage.Root = RenderTree(tree)

\* C35: the display converges to the latest snapshot. While the event
\* loop runs, the session eventually comes to rest (or the loop is
\* stopped), and whenever it is at rest the displayed tree is structurally
\* equal to the tree built from the current snapshot.
C35_DisplayConverges ==
    /\ [](Quiescent => DisplayedCurrent)
    /\ (entry = "Start" /\ mainPc = "run") ~> (Quiescent \/ mainPc = "returned")

\* The session is at rest with the event loop running after the listener
\* has replaced the page twice, the second time by the tree of a snapshot
\* the refresh loop committed.
C35_Witness ==
    /\ Quiescent
    /\ gen = 2
    /\ hasChanged.calls = 2
    /\ hasChanged.ret
    /\ builtGen = 2
    /\ uiQueue = <<[kind |-> "stop", view |-> Nil]>>

\* ------------------------------------------------------------------ C36

\* The event loop of Explorer.Start runs a page swap the listener queued.
ListenerSwapStep ==
    /\ entry \in {"Start", "StartAndStop"}
    /\ mainPc = "run"
    /\ uiQueue # <<>>
    /\ uiQueue' = Tail(uiQueue)
    /\ Head(uiQueue).kind = "swap"

\* C36: every page swap of the update listener installs a tree that
\* differs structurally from the tree displayed immediately before it, the
\* swap for the notification of the initial fetch included.
C36_SwapInstallsDifferentTree ==
    [][ListenerSwapStep => mainPage'.Root # mainPage.Root]_vars

\* ------------------------------------------------------------------ C37

\* The calls of the client's FetchTopology that have not returned: the one
\* of the thread of Start / StartExplorer (the initial fetch, or a tick of
\* the ViewModel's loop), and the one of the Explorer's refresh goroutine
\* (a tick's, or that of its RefreshTreeView).
InFlight ==
    (IF mainPc \in {"fetching", "startFetch"} THEN 1 ELSE 0)
        + (IF refreshPc \in {"fetch", "refetch"} THEN 1 ELSE 0)

\* C37: at most one FetchTopology call on the client is in flight at any
\* time, across the startup fetch and all auto-refresh ticks.
C37_OneFetchInFlight == InFlight <= 1

\* The refresh goroutine of StartExplorer has the second fetch of a tick in
\* flight while the event loop runs.
C37_Witness ==
    /\ entry = "StartExplorer"
    /\ mainPc = "run"
    /\ refreshPc = "refetch"
    /\ fetches = 3
    /\ InFlight = 1

\* ------------------------------------------------------------------ C38

\* C38: in a session of Explorer.Start no BuildTreeData runs on an absent
\* snapshot: when InitUI or the listener is about to build, and for every
\* build made, vm.topology is not nil and was committed by a fetch.
C38_NoBuildBeforeSnapshot ==
    entry \in {"Start", "StartAndStop"} =>
        /\ (mainPc = "initUI" \/ listenerPc = "build") => (topology # Nil /\ gen >= 1)
        /\ \A i \in DOMAIN builds : builds[i].top # Nil /\ builds[i].gen >= 1

\* InitUI built from the snapshot of the initial fetch and the listener
\* from the snapshot of a tick.
C38_Witness ==
    /\ entry = "Start"
    /\ Len(builds) = 2
    /\ builds[1].gen = 1
    /\ builds[2].gen = 2
    /\ listenerPc = "diff"

\* ------------------------------------------------------------------ C39

\* RefreshTreeView queues the tree it rebuilt and restored.
RestoredStep ==
    /\ refreshPc = "refetch"
    /\ Len(uiQueue') > Len(uiQueue)
    /\ ExpandedNodes # Nil

\* C39: a rebuild preserves the expansion flag of every surviving node in
\* both directions: every node of the rebuilt tree whose label was
\* captured before the rebuild, the root included, is expanded exactly
\* when the captured flag of that label says so.
C39_FlagsPreservedBothWays ==
    [][RestoredStep =>
        LET new == uiQueue'[Len(uiQueue')].view.Root
            paths == walk(new, <<>>)
        IN  \A i \in DOMAIN paths :
                LET node == NodeAt(new, paths[i])
                IN  node.Text \in DOMAIN ExpandedNodes
                        => node.Expanded = ExpandedNodes[node.Text]]_vars

====
